---------------------------- MODULE Spec2Model ----------------------------
(***************************************************************************)
(* A model of the resume-screening MCP server: the tool facades            *)
(* (tools/candidate_tools.py, tools/job_tools.py), the retrieval           *)
(* orchestrator (services/llamacloud_service.py) and the text-generation   *)
(* client (services/openai_service.py).                                    *)
(*                                                                         *)
(* Python strings are sequences of one-character strings, Python values of *)
(* unknown type are tagged records (Val), floats are integers.             *)
(***************************************************************************)
EXTENDS Integers, Sequences, FiniteSets, TLC

(***************************************************************************)
(* Characters and the str methods the code uses.                           *)
(***************************************************************************)
LowerCase ==
    << "a", "b", "c", "d", "e", "f", "g", "h", "i", "j", "k", "l", "m",
       "n", "o", "p", "q", "r", "s", "t", "u", "v", "w", "x", "y", "z" >>

UpperCase ==
    << "A", "B", "C", "D", "E", "F", "G", "H", "I", "J", "K", "L", "M",
       "N", "O", "P", "Q", "R", "S", "T", "U", "V", "W", "X", "Y", "Z" >>

Digit == << "0", "1", "2", "3", "4", "5", "6", "7", "8", "9" >>

Range(f) == { f[x] : x \in DOMAIN f }

IndexOf(seq, c) == CHOOSE i \in DOMAIN seq : seq[i] = c

IsUpper(c) == c \in Range(UpperCase)

IsLower(c) == c \in Range(LowerCase)

IsCased(c) == IsUpper(c) \/ IsLower(c)

ToLower(c) == IF IsUpper(c) THEN LowerCase[IndexOf(UpperCase, c)] ELSE c

ToUpper(c) == IF IsLower(c) THEN UpperCase[IndexOf(LowerCase, c)] ELSE c

\* str.isspace for the characters of the model
IsSpace(c) == c \in { " ", "\n", "\t" }

\* s[a:b] with 0 <= a, b (Python slice, 0-based, end exclusive)
Slice(s, a, b) ==
    LET hi == IF b < Len(s) THEN b ELSE Len(s)
    IN  IF a >= hi THEN << >> ELSE SubSeq(s, a + 1, hi)

\* str.lower
Lower(s) == [ i \in DOMAIN s |-> ToLower(s[i]) ]

\* str.startswith
StartsWith(s, p) == Len(s) >= Len(p) /\ SubSeq(s, 1, Len(p)) = p

\* str.replace for a single character
Replace(s, old, new) == [ i \in DOMAIN s |-> IF s[i] = old THEN new ELSE s[i] ]

\* str.title: a cased character is upper-cased unless it follows a cased one
Title(s) ==
    [ i \in DOMAIN s |->
        IF i > 1 /\ IsCased(s[i - 1]) THEN ToLower(s[i]) ELSE ToUpper(s[i]) ]

\* str.strip
RECURSIVE LStrip(_)
LStrip(s) ==
    IF s # << >> /\ IsSpace(Head(s)) THEN LStrip(Tail(s)) ELSE s

RECURSIVE RStrip(_)
RStrip(s) ==
    IF s # << >> /\ IsSpace(s[Len(s)]) THEN RStrip(SubSeq(s, 1, Len(s) - 1)) ELSE s

Strip(s) == RStrip(LStrip(s))

\* str.split(sep) for a single character: a list of strings, never empty
RECURSIVE Split(_, _)
Split(s, sep) ==
    IF \A i \in DOMAIN s : s[i] # sep
    THEN << s >>
    ELSE LET k == CHOOSE i \in DOMAIN s :
                     s[i] = sep /\ \A j \in 1 .. (i - 1) : s[j] # sep
         IN  << SubSeq(s, 1, k - 1) >> \o Split(SubSeq(s, k + 1, Len(s)), sep)

\* os.path.basename (posix): what follows the last "/"
RECURSIVE Basename(_)
Basename(s) ==
    IF \A i \in DOMAIN s : s[i] # "/"
    THEN s
    ELSE LET k == CHOOSE i \in DOMAIN s : s[i] = "/"
         IN  Basename(SubSeq(s, k + 1, Len(s)))

\* str(n) for a natural number
RECURSIVE NatStr(_)
NatStr(n) ==
    IF n < 10 THEN << Digit[n + 1] >> ELSE NatStr(n \div 10) \o << Digit[(n % 10) + 1] >>

(***************************************************************************)
(* Python values whose type the code does not control: an attribute of a   *)
(* raw record may be missing ("absent"), None, a str, a number or a list.  *)
(* The fields are uniform so that any two values can be compared.          *)
(***************************************************************************)
Absent == [ s |-> << >>, k |-> "absent", n |-> 0 ]

None == [ s |-> << >>, k |-> "none", n |-> 0 ]

StrV(s) == [ s |-> s, k |-> "str", n |-> 0 ]

NumV(n) == [ s |-> << >>, k |-> "num", n |-> n ]

\* a non-empty list, ['x']
ListV == [ s |-> << >>, k |-> "list", n |-> 1 ]

EmptyStr == StrV(<< >>)

\* bool(v)
Truthy(v) ==
    CASE v.k = "str" -> v.s # << >>
      [] v.k = "num" -> v.n # 0
      [] v.k = "list" -> TRUE
      [] OTHER -> FALSE

\* a or b
Or(a, b) == IF Truthy(a) THEN a ELSE b

\* getattr(obj, name, default), the attribute value being v
GetAttr(v, default) == IF v.k = "absent" THEN default ELSE v

\* str(v)
PyStr(v) ==
    CASE v.k = "str" -> v.s
      [] v.k = "num" -> NatStr(v.n)
      [] v.k = "none" -> << "N", "o", "n", "e" >>
      [] v.k = "list" -> << "[", "'", "x", "'", "]" >>
      [] OTHER -> << >>

(***************************************************************************)
(* A metadata mapping: "dict" with the three keys the code reads (Absent   *)
(* for a missing key) and a flag for any other key; or a missing           *)
(* attribute, None, or a value of another type (a str).                    *)
(***************************************************************************)
Dict(fn, fname, fpath, other) ==
    [ k |-> "dict", other |-> other, file_name |-> fn, filename |-> fname,
      file_path |-> fpath ]

EmptyDict == Dict(Absent, Absent, Absent, FALSE)

NoMeta(kind) ==
    [ k |-> kind, other |-> FALSE, file_name |-> Absent, filename |-> Absent,
      file_path |-> Absent ]

\* bool(m)
TruthyMeta(m) ==
    CASE m.k = "dict" ->
             \/ m.other
             \/ m.file_name.k # "absent"
             \/ m.filename.k # "absent"
             \/ m.file_path.k # "absent"
      [] m.k = "str" -> TRUE
      [] OTHER -> FALSE

\* getattr(obj, 'metadata', {}) or getattr(obj, 'extra_info', {})
MetaOf(metadata, extra_info) ==
    LET m1 == IF metadata.k = "absent" THEN EmptyDict ELSE metadata
        m2 == IF extra_info.k = "absent" THEN EmptyDict ELSE extra_info
    IN  IF TruthyMeta(m1) THEN m1 ELSE m2

\* metadata.get(key, ''), the entry being v; only a dict has .get
DictGet(v) == IF v.k = "absent" THEN EmptyStr ELSE v

(***************************************************************************)
(* Raw search records.  A record is flat, or wraps an inner record in its  *)
(* attribute "node" (has_node).                                            *)
(***************************************************************************)
NoInner ==
    [ id_ |-> Absent, text |-> Absent, content |-> Absent,
      metadata |-> NoMeta("absent"), extra_info |-> NoMeta("absent") ]

FlatNode(id, nid, score, text, content, metadata, extra) ==
    [ id_ |-> id, node_id |-> nid, score |-> score, text |-> text,
      content |-> content, metadata |-> metadata, extra_info |-> extra,
      has_node |-> FALSE, node |-> NoInner ]

\* the wrapper's own text and metadata are read only by the fallback path
WrappedNode(id, nid, score, text, metadata, inner) ==
    [ id_ |-> id, node_id |-> nid, score |-> score, text |-> text,
      content |-> Absent, metadata |-> metadata,
      extra_info |-> NoMeta("absent"), has_node |-> TRUE, node |-> inner ]

Inner(id, text, content, metadata, extra) ==
    [ id_ |-> id, text |-> text, content |-> content, metadata |-> metadata,
      extra_info |-> extra ]

(***************************************************************************)
(* CandidateMatch                                                          *)
(***************************************************************************)
UnknownCandidate ==
    << "U", "n", "k", "n", "o", "w", "n", " ", "C", "a", "n", "d", "i", "d", "a", "t", "e" >>

\* CandidateMatch.__init__: candidate_name and file_name are Val here, the
\* stored fields are strings
CandidateMatch(node_id, score, content, metadata, candidate_name, file_name) ==
    [ node_id |-> node_id, score |-> score, content |-> content,
      metadata |-> metadata,
      candidate_name |-> IF Truthy(candidate_name) THEN candidate_name.s
                         ELSE UnknownCandidate,
      file_name |-> IF Truthy(file_name) THEN file_name.s ELSE << >> ]

(***************************************************************************)
(* Name inference from the content: re.search of three patterns over the   *)
(* first NameScanLimit characters.                                         *)
(***************************************************************************)
NameScanLimit == 200

\* the last index of the maximal run of [a-z] starting at p (p - 1 if none)
RECURSIVE LowerRunEnd(_, _)
LowerRunEnd(s, p) ==
    IF p <= Len(s) /\ IsLower(s[p]) THEN LowerRunEnd(s, p + 1) ELSE p - 1

\* the last index of the maximal run of \s starting at p (p - 1 if none)
RECURSIVE SpaceRunEnd(_, _)
SpaceRunEnd(s, p) ==
    IF p <= Len(s) /\ IsSpace(s[p]) THEN SpaceRunEnd(s, p + 1) ELSE p - 1

\* [A-Z][a-z]+ [A-Z][a-z]+ matched at p: the index of its last character,
\* 0 when it does not match there.  Each [a-z]+ is greedy and what follows
\* it cannot be a lower-case letter, so it takes the maximal run.
NameEnd(s, p) ==
    IF ~(p >= 1 /\ p <= Len(s) /\ IsUpper(s[p])) THEN 0
    ELSE LET e1 == LowerRunEnd(s, p + 1)
         IN  IF e1 < p + 1 \/ e1 + 2 > Len(s) THEN 0
             ELSE IF s[e1 + 1] # " " \/ ~IsUpper(s[e1 + 2]) THEN 0
             ELSE LET e2 == LowerRunEnd(s, e1 + 3)
                  IN  IF e2 < e1 + 3 THEN 0 ELSE e2

NoMatch == [ found |-> FALSE, name |-> << >> ]

\* the group ([A-Z][a-z]+ [A-Z][a-z]+) taken from p to e, e = 0 when it
\* does not match at p
Group(s, p, e) == IF e > 0 THEN [ found |-> TRUE, name |-> SubSeq(s, p, e) ] ELSE NoMatch

Match(s, p) == Group(s, p, NameEnd(s, p))

\* re.search: the match at the leftmost position, tries being the attempt
\* at each position in turn
FirstFound(tries) ==
    IF \A i \in DOMAIN tries : ~tries[i].found THEN NoMatch
    ELSE tries[CHOOSE i \in DOMAIN tries :
                   tries[i].found /\ \A j \in 1 .. (i - 1) : ~tries[j].found]

\* r'^([A-Z][a-z]+ [A-Z][a-z]+)'
PatternStart(s) == Match(s, 1)

\* r'Name:?\s*([A-Z][a-z]+ [A-Z][a-z]+)' tried at p.  What follows \s* is
\* not a space, so \s* takes the maximal run.
LabelAt(s, p) ==
    IF ~(p + 3 <= Len(s) /\ SubSeq(s, p, p + 3) = << "N", "a", "m", "e" >>)
    THEN NoMatch
    ELSE Match(s, SpaceRunEnd(s, IF p + 4 <= Len(s) /\ s[p + 4] = ":"
                                 THEN p + 5 ELSE p + 4) + 1)

PatternLabel(s) == FirstFound([ p \in DOMAIN s |-> LabelAt(s, p) ])

\* r'([A-Z][a-z]+ [A-Z][a-z]+)\s*\n' tried at p, the group ending at e:
\* a newline in the run of \s that follows the group
NewlineAfter(s, p, e) ==
    IF e > 0 /\ \E i \in (e + 1) .. SpaceRunEnd(s, e + 1) : s[i] = "\n"
    THEN Group(s, p, e)
    ELSE NoMatch

NewlineAt(s, p) == NewlineAfter(s, p, NameEnd(s, p))

PatternNewline(s) == FirstFound([ p \in DOMAIN s |-> NewlineAt(s, p) ])

\* for pattern in name_patterns: match = re.search(pattern, content[:200]);
\* the first pattern that matches gives the name
NameFromPatterns(head) ==
    FirstFound(<< PatternStart(head), PatternLabel(head), PatternNewline(head) >>)

NameFromContent(content) == NameFromPatterns(Slice(content, 0, NameScanLimit))

(***************************************************************************)
(* Name inference from the file name.                                      *)
(***************************************************************************)
Resume == << "r", "e", "s", "u", "m", "e" >>

\* base_name.split('.')[0].replace('_', ' ').replace('-', ' ')
NamePart(file_name) ==
    Replace(Replace(Split(Basename(file_name), ".")[1], "_", " "), "-", " ")

\* NameFromFile with "resume" looked for anywhere in name_part
NameFromFileAnyResume(file_name) ==
    LET name_part == Lower(NamePart(file_name))
    IN  IF /\ name_part # << >>
           /\ \A p \in 1 .. Len(name_part) :
                  ~(p + 5 <= Len(name_part) /\ SubSeq(name_part, p, p + 5) = Resume)
        THEN Title(NamePart(file_name))
        ELSE UnknownCandidate

\* the candidate_name after the file-name step
NameFromFile(file_name) ==
    LET name_part == NamePart(file_name)
    IN  IF name_part # << >> /\ ~StartsWith(Lower(name_part), Resume)
        THEN Title(name_part)
        ELSE UnknownCandidate

(***************************************************************************)
(* LlamaCloudService._extract_candidate_info                               *)
(***************************************************************************)
Returned(cm) == [ raised |-> FALSE, cm |-> cm ]

Raised == [ raised |-> TRUE, cm |-> CandidateMatch(None, None, None, EmptyDict, None, None) ]

\* the try block, from the last statement to the first.  Each operator is
\* the rest of the block once the values in its parameters are bound; the
\* result is the CandidateMatch returned, or Raised where a statement raises.

\* "for pattern in name_patterns": the name found in the content replaces
\* the one from the file name
ExtractWithMatch(node_id, score, content, metadata, file_name, candidate_name, match) ==
    Returned(CandidateMatch(node_id, score, content, metadata,
                            StrV(IF match.found THEN match.name ELSE candidate_name),
                            file_name))

\* "if candidate_name == "Unknown Candidate" and content": content[:200]
\* and re.search raise on a content that is not a str
ExtractWithName(node_id, score, content, metadata, file_name, candidate_name) ==
    IF candidate_name # UnknownCandidate \/ ~Truthy(content)
    THEN Returned(CandidateMatch(node_id, score, content, metadata,
                                 StrV(candidate_name), file_name))
    ELSE IF content.k # "str" THEN Raised
    ELSE ExtractWithMatch(node_id, score, content, metadata, file_name,
                          candidate_name, NameFromContent(content.s))

\* "if file_name": os.path.basename raises on a file_name that is not a str
ExtractWithFileName(node_id, score, content, metadata, file_name) ==
    IF ~Truthy(file_name)
    THEN ExtractWithName(node_id, score, content, metadata, file_name, UnknownCandidate)
    ELSE IF file_name.k # "str" THEN Raised
    ELSE ExtractWithName(node_id, score, content, metadata, file_name,
                         NameFromFile(file_name.s))

\* metadata.get('file_name', '') or metadata.get('filename', '') or
\* metadata.get('file_path', ''): only a dict has .get
ExtractWithMetadata(node_id, score, content, metadata) ==
    IF metadata.k # "dict" THEN Raised
    ELSE ExtractWithFileName(node_id, score, content, metadata,
             Or(Or(DictGet(metadata.file_name), DictGet(metadata.filename)),
                DictGet(metadata.file_path)))

\* getattr(node, 'id_', '') or getattr(node, 'node_id', '')
OuterId(node) == Or(GetAttr(node.id_, EmptyStr), GetAttr(node.node_id, EmptyStr))

\* src is node.node where the record has one, the record itself otherwise
ExtractFrom(node, src) ==
    ExtractWithMetadata(
        IF node.has_node THEN Or(OuterId(node), GetAttr(src.id_, EmptyStr))
        ELSE OuterId(node),
        GetAttr(node.score, NumV(0)),
        Or(GetAttr(src.text, EmptyStr), GetAttr(src.content, EmptyStr)),
        MetaOf(src.metadata, src.extra_info))

ExtractMain(node) == ExtractFrom(node, IF node.has_node THEN node.node ELSE node)

Unknown == << "u", "n", "k", "n", "o", "w", "n" >>

\* the except block: "Return a basic match with available information"
ExtractFallback(node) ==
    Returned(CandidateMatch(
        StrV(PyStr(GetAttr(node.id_, StrV(Unknown)))),
        GetAttr(node.score, NumV(0)),
        StrV(PyStr(GetAttr(node.text, GetAttr(node.content, EmptyStr)))),
        IF node.metadata.k = "absent" THEN EmptyDict ELSE node.metadata,
        None, None))

\* OrFallback without the except block
NoFallback(node, main) == main

\* try: ... except Exception: ..., main being the outcome of the try block
OrFallback(node, main) == IF main.raised THEN ExtractFallback(node) ELSE main

_extract_candidate_info(node) == OrFallback(node, ExtractMain(node))

(***************************************************************************)
(* The loop over the retrieved nodes and the sort that follows it, the     *)
(* same in the three retrieval operations.                                 *)
(***************************************************************************)
NoCandidates == [ candidates |-> << >>, seen_files |-> { } ]

\* the body of "for i, node in enumerate(nodes)" once the record is
\* normalized to r: a record whose file name was seen is skipped.  The log
\* line after candidates.append raises for a score that is not a number;
\* the candidate is appended by then, and the loop continues.
\* LoopBody without the test on seen_files
LoopBodyKeepsAll(acc, r) ==
    IF r.raised THEN acc
    ELSE [ candidates |-> Append(acc.candidates, r.cm),
           seen_files |-> acc.seen_files \cup { r.cm.file_name } ]

\* LoopBody putting a record in the place of the candidate of its file
\* when its score is the higher one
LoopBodyKeepsBest(acc, r) ==
    IF r.raised THEN acc
    ELSE IF r.cm.file_name # << >> /\ r.cm.file_name \in acc.seen_files
    THEN [ acc EXCEPT !.candidates =
             [ k \in DOMAIN acc.candidates |->
                 IF /\ acc.candidates[k].file_name = r.cm.file_name
                    /\ acc.candidates[k].score.k = "num" /\ r.cm.score.k = "num"
                    /\ acc.candidates[k].score.n < r.cm.score.n
                 THEN r.cm
                 ELSE acc.candidates[k] ] ]
    ELSE [ candidates |-> Append(acc.candidates, r.cm),
           seen_files |-> IF r.cm.file_name # << >>
                          THEN acc.seen_files \cup { r.cm.file_name }
                          ELSE acc.seen_files ]

LoopBody(acc, r) ==
    IF r.raised \/ (r.cm.file_name # << >> /\ r.cm.file_name \in acc.seen_files)
    THEN acc
    ELSE [ candidates |-> Append(acc.candidates, r.cm),
           seen_files |-> IF r.cm.file_name # << >>
                          THEN acc.seen_files \cup { r.cm.file_name }
                          ELSE acc.seen_files ]

RECURSIVE Loop(_, _)
Loop(nodes, acc) ==
    IF nodes = << >> THEN acc
    ELSE Loop(Tail(nodes), LoopBody(acc, _extract_candidate_info(Head(nodes))))

\* candidates after the loop
ProcessNodes(nodes) == Loop(nodes, NoCandidates).candidates

\* the characters of the model in code-point order
CodeOrder ==
    << "\t", "\n", " ", "'", ",", "-", ".", "/" >> \o Digit \o << ":" >>
    \o UpperCase \o << "[", "]", "_" >> \o LowerCase

Ord(c) == IndexOf(CodeOrder, c)

\* a < b for two str
RECURSIVE StrLess(_, _)
StrLess(a, b) ==
    IF b = << >> THEN FALSE
    ELSE IF a = << >> THEN TRUE
    ELSE IF Head(a) = Head(b) THEN StrLess(Tail(a), Tail(b))
    ELSE Ord(Head(a)) < Ord(Head(b))

\* a < b for two scores of one type
ScoreLess(a, b) ==
    CASE a.k = "num" -> a.n < b.n
      [] a.k = "str" -> StrLess(a.s, b.s)
      [] OTHER -> FALSE

\* a < b raises TypeError: None is ordered with nothing, and two values of
\* different types are not ordered
Unorderable(a, b) == a.k # b.k \/ a.k = "none"

\* a stable sort compares every element with another one
SortRaises(candidates) ==
    /\ Len(candidates) >= 2
    /\ \E i, j \in DOMAIN candidates :
           i # j /\ Unorderable(candidates[i].score, candidates[j].score)

\* InsertByScore with c put before the elements equal to it
RECURSIVE InsertBeforeEquals(_, _)
InsertBeforeEquals(sorted, c) ==
    IF sorted = << >> THEN << c >>
    ELSE IF ~ScoreLess(c.score, Head(sorted).score) THEN << c >> \o sorted
    ELSE << Head(sorted) >> \o InsertBeforeEquals(Tail(sorted), c)

\* c put behind the elements that are not lower than it
RECURSIVE InsertByScore(_, _)
InsertByScore(sorted, c) ==
    IF sorted = << >> THEN << c >>
    ELSE IF ScoreLess(Head(sorted).score, c.score) THEN << c >> \o sorted
    ELSE << Head(sorted) >> \o InsertByScore(Tail(sorted), c)

RECURSIVE SortFrom(_, _)
SortFrom(sorted, rest) ==
    IF rest = << >> THEN sorted
    ELSE SortFrom(InsertByScore(sorted, Head(rest)), Tail(rest))

\* candidates.sort(key=lambda x: x.score, reverse=True)
SortByScore(candidates) == SortFrom(<< >>, candidates)

\* the sort and the return, or the exception the sort raises
Rank(candidates) ==
    IF SortRaises(candidates)
    THEN [ raised |-> TRUE, candidates |-> << >> ]
    ELSE [ raised |-> FALSE, candidates |-> SortByScore(candidates) ]

(***************************************************************************)
(* The state of the server process.                                        *)
(***************************************************************************)
VARIABLES
    env,                 \* the settings config.py reads from the environment
    proc,                \* server.py: "starting", "serving" or "crashed"
    openai_service,      \* JobTools.openai_service: "unset" or "ready"
    llamacloud_service,  \* CandidateTools.llamacloud_service: "unset", "None", "ready"
    index,               \* LlamaCloudService._index: "None" or "handle"
    inv                  \* the tool invocations in progress, by slot

vars == << env, proc, openai_service, llamacloud_service, index, inv >>

\* the number of invocation slots (concurrent invocations)
MaxInv == 2

Invs == 1 .. MaxInv

(***************************************************************************)
(* config.py and the services' constructors                                *)
(***************************************************************************)
\* the values an environment variable is given in the model: "" (set but
\* empty), the placeholders of config.py and of the constructor, a real one
OpenAIKeys == { "", "your-openai-api-key-here", "sk-real" }

LlamaKeys == { "", "llx-your-api-key-here", "your-llamacloud-api-key-here", "llx-real" }

IndexNames == { "", "resume_public" }

Envs ==
    [ OPENAI_API_KEY : OpenAIKeys,
      LLAMA_CLOUD_API_KEY : LlamaKeys,
      LLAMA_CLOUD_INDEX_NAME : IndexNames,
      LLAMA_INDEX_AVAILABLE : BOOLEAN ]

\* OpenAIService.__init__ raises ValueError
OpenAIServiceRaises(e) == e.OPENAI_API_KEY = ""

\* LlamaCloudService.__init__ raises ImportError or ValueError
LlamaCloudServiceRaises(e) ==
    \/ ~e.LLAMA_INDEX_AVAILABLE
    \/ e.LLAMA_CLOUD_API_KEY = ""
    \/ e.LLAMA_CLOUD_API_KEY = "llx-your-api-key-here"
    \/ e.LLAMA_CLOUD_INDEX_NAME = ""

\* JobTools.__init__: the constructor's exception is not caught
JobToolsRaises(e) == OpenAIServiceRaises(e)

\* CandidateTools.__init__: the attribute it leaves behind
CandidateToolsService(e) == IF LlamaCloudServiceRaises(e) THEN "None" ELSE "ready"

(***************************************************************************)
(* Tool arguments and results                                              *)
(***************************************************************************)
BoolV(b) == [ s |-> << >>, k |-> "bool", n |-> IF b THEN 1 ELSE 0 ]

NoArgs ==
    [ jd_text |-> << >>, skills |-> << >>, candidate_resume |-> << >>,
      required_qualifications |-> << >>, preferred_qualifications |-> << >>,
      top_k |-> Absent, enable_reranking |-> Absent ]

NoConfig == [ dense_similarity_top_k |-> Absent, alpha |-> 0, enable_reranking |-> Absent ]

NoParameters ==
    [ top_k |-> Absent, enable_reranking |-> Absent,
      required_qualifications |-> << >>, preferred_qualifications |-> << >> ]

\* OpenAIService.score_candidate_qualifications: the scores of the model's
\* response.  An item of requiredScores or preferredScores is the value of
\* its "score" (Absent for an item without one).
\* item.get("score", 0)
ScoreOf(item) == IF item.k = "absent" THEN 0 ELSE item.n

\* sum(...) raises TypeError on a score that is not a number
SumRaises(items) == \E k \in DOMAIN items : items[k].k \notin { "absent", "num" }

RECURSIVE Sum(_)
Sum(items) == IF items = << >> THEN 0 ELSE ScoreOf(Head(items)) + Sum(Tail(items))

\* MatchPercentage with the quotient cut off behind the first decimal
MatchPercentageTruncated(total_score, max_possible_score) ==
    IF max_possible_score > 0 THEN (1000 * total_score) \div max_possible_score ELSE 0

\* round(num / den, 0) for num >= 0, den > 0: to the nearest integer, a tie
\* to the even one
RoundHalfEven(num, den) ==
    IF 2 * (num % den) > den \/ (2 * (num % den) = den /\ (num \div den) % 2 = 1)
    THEN (num \div den) + 1
    ELSE num \div den

\* round((total_score / max_possible_score * 100) if max_possible_score > 0
\* else 0, 1), in tenths of a percent.  The quotient is exact here, a float
\* in the code.
MatchPercentage(total_score, max_possible_score) ==
    IF max_possible_score > 0 THEN RoundHalfEven(1000 * total_score, max_possible_score)
    ELSE 0

\* the result dict, required_total and preferred_total being the two sums
ScoringTotals(required, preferred, required_scores, preferred_scores, required_total, preferred_total) ==
    [ requiredScores |-> required_scores,
      preferredScores |-> preferred_scores,
      totalScore |-> required_total + preferred_total,
      maxPossibleScore |-> (Len(required) + Len(preferred)) * 2,
      matchPercentage |-> MatchPercentage(required_total + preferred_total,
                                          (Len(required) + Len(preferred)) * 2),
      requiredTotal |-> required_total,
      preferredTotal |-> preferred_total,
      requiredCount |-> Len(required),
      preferredCount |-> Len(preferred) ]

ScoringResult(required, preferred, required_scores, preferred_scores) ==
    ScoringTotals(required, preferred, required_scores, preferred_scores,
                  Sum(required_scores), Sum(preferred_scores))

NoScoring == ScoringResult(<< >>, << >>, << >>, << >>)

\* what a tool returns (the dict it serializes), or the exception that leaves
\* it; kind is "none" while the invocation runs
NoResult ==
    [ kind |-> "none", error |-> "", detail |-> "", search_type |-> "",
      search_skills |-> << >>, total_candidates |-> 0,
      search_parameters |-> NoParameters, candidates |-> << >>,
      scoring |-> NoScoring ]

\* json.dumps({"error": error_msg})
ErrorEnvelope(error, detail) ==
    [ NoResult EXCEPT !.kind = "error", !.error = error, !.detail = detail ]

\* an exception that propagates out of the function
Escapes(detail) == [ NoResult EXCEPT !.kind = "raised", !.detail = detail ]

\* models.JobDescriptionData
JobDescriptionData(title, company, location, required_qualifications, preferred_qualifications, description, experience_level, employment_type) ==
    [ title |-> title, company |-> company, location |-> location,
      required_qualifications |-> required_qualifications,
      preferred_qualifications |-> preferred_qualifications,
      description |-> description, experience_level |-> experience_level,
      employment_type |-> employment_type ]

NoJobDescription == JobDescriptionData(<< >>, << >>, << >>, << >>, << >>, << >>, << >>, << >>)

IdleInv ==
    [ pc |-> "idle", tool |-> "none", args |-> NoArgs, op |-> "none",
      retriever_config |-> NoConfig, connects |-> 0, queries |-> 0,
      llm_calls |-> 0, nodes |-> << >>, candidates |-> << >>, failed |-> "none",
      retrieved |-> "none", result |-> NoResult,
      required_quals |-> << >>, preferred_quals |-> << >>, query |-> << >>,
      job_description |-> NoJobDescription ]

\* [qual.strip() for qual in text.split(',') if qual.strip()]
RECURSIVE StripAll(_)
StripAll(parts) ==
    IF parts = << >> THEN << >>
    ELSE LET q == Strip(Head(parts))
         IN  (IF q # << >> THEN << q >> ELSE << >>) \o StripAll(Tail(parts))

ParseQuals(text) == StripAll(Split(text, ","))

\* Blank without the strip
BlankUnstripped(text) == text = << >>

\* not text or not text.strip()
Blank(text) == text = << >> \/ Strip(text) = << >>

MinTopK == 1

MaxTopK == 50

\* BadTopK with the upper limit off by one
BadTopKOffByOne(top_k) ==
    top_k.k # "num" \/ top_k.n < MinTopK \/ top_k.n > MaxTopK + 1

\* not isinstance(top_k, int) or top_k < 1 or top_k > 50
BadTopK(top_k) == top_k.k # "num" \/ top_k.n < MinTopK \/ top_k.n > MaxTopK

(***************************************************************************)
(* The queries sent to the index                                           *)
(***************************************************************************)
\* sep.join(parts)
RECURSIVE Join(_, _)
Join(parts, sep) ==
    IF parts = << >> THEN << >>
    ELSE IF Len(parts) = 1 THEN parts[1]
    ELSE parts[1] \o sep \o Join(Tail(parts), sep)

CommaSpace == << ",", " " >>

OneSpace == << " " >>

RequiredClause ==
    << "R", "e", "q", "u", "i", "r", "e", "d", " ", "s", "k", "i", "l", "l",
       "s", " ", "a", "n", "d", " ", "q", "u", "a", "l", "i", "f", "i", "c",
       "a", "t", "i", "o", "n", "s", ":", " " >>

PreferredClause ==
    << "P", "r", "e", "f", "e", "r", "r", "e", "d", " ", "s", "k", "i", "l",
       "l", "s", " ", "a", "n", "d", " ", "e", "x", "p", "e", "r", "i", "e",
       "n", "c", "e", ":", " " >>

RelevantClause ==
    << "R", "e", "l", "e", "v", "a", "n", "t", " ", "e", "x", "p", "e", "r",
       "i", "e", "n", "c", "e", " ", "w", "i", "t", "h", ":", " " >>

\* "if items: query_parts.append(f"{label}{sep.join(items)}")": what the
\* statement appends to query_parts
Clause(label, items, sep) ==
    IF items = << >> THEN << >> ELSE << label \o Join(items, sep) >>

\* _build_qualifications_query with the last clause built from the required
\* qualifications only
QualificationsQueryRequiredOnly(required, preferred) ==
    Join(Clause(RequiredClause, required, CommaSpace)
         \o Clause(PreferredClause, preferred, CommaSpace)
         \o Clause(RelevantClause, required, CommaSpace),
         OneSpace)

\* LlamaCloudService._build_qualifications_query
_build_qualifications_query(required, preferred) ==
    Join(Clause(RequiredClause, required, CommaSpace)
         \o Clause(PreferredClause, preferred, CommaSpace)
         \o Clause(RelevantClause, required \o preferred, CommaSpace),
         OneSpace)

JobTitle ==
    << "J", "o", "b", " ", "T", "i", "t", "l", "e", ":", " " >>

RequiredQualifications ==
    << "R", "e", "q", "u", "i", "r", "e", "d", " ", "Q", "u", "a", "l", "i",
       "f", "i", "c", "a", "t", "i", "o", "n", "s", ":", " " >>

PreferredQualifications ==
    << "P", "r", "e", "f", "e", "r", "r", "e", "d", " ", "Q", "u", "a", "l",
       "i", "f", "i", "c", "a", "t", "i", "o", "n", "s", ":", " " >>

ExperienceLevel ==
    << "E", "x", "p", "e", "r", "i", "e", "n", "c", "e", " ", "L", "e", "v",
       "e", "l", ":", " " >>

\* "if text: query_parts.append(f"{label}{text}")"
TextClause(label, text) == IF text = << >> THEN << >> ELSE << label \o text >>

\* _build_search_query without the clause of the experience level
SearchQueryWithoutExperience(title, required, preferred, experience_level) ==
    Join(TextClause(JobTitle, title)
         \o Clause(RequiredQualifications, required, OneSpace)
         \o Clause(PreferredQualifications, preferred, OneSpace),
         OneSpace)

\* LlamaCloudService._build_search_query, from the four fields of the
\* JobDescriptionData it reads
_build_search_query(title, required, preferred, experience_level) ==
    Join(TextClause(JobTitle, title)
         \o Clause(RequiredQualifications, required, OneSpace)
         \o Clause(PreferredQualifications, preferred, OneSpace)
         \o TextClause(ExperienceLevel, experience_level),
         OneSpace)

\* search_by_skills: f"Skills and experience in: {skills}"
SkillsQuery ==
    << "S", "k", "i", "l", "l", "s", " ", "a", "n", "d", " ", "e", "x", "p",
       "e", "r", "i", "e", "n", "c", "e", " ", "i", "n", ":", " " >>

\* title="Skills-based Search"
SkillsBasedSearch ==
    << "S", "k", "i", "l", "l", "s", "-", "b", "a", "s", "e", "d", " ", "S",
       "e", "a", "r", "c", "h" >>

(***************************************************************************)
(* The retrieval operations of LlamaCloudService, up to their await.       *)
(***************************************************************************)
\* _get_index, self._index being cur; conn is what LlamaCloudIndex(...) does
\* when it is called: "ok" or "fail"
\* _get_index without the test "if self._index is None"
GetIndexAlwaysBuilds(cur, conn) ==
    IF conn = "ok"
    THEN [ index |-> "handle", raised |-> FALSE, built |-> 1 ]
    ELSE [ index |-> "None", raised |-> TRUE, built |-> 1 ]

\* _get_index keeping the handle of a construction that has raised
GetIndexCachesFailure(cur, conn) ==
    IF cur = "None"
    THEN [ index |-> "handle", raised |-> conn # "ok", built |-> 1 ]
    ELSE [ index |-> cur, raised |-> FALSE, built |-> 0 ]

_get_index(cur, conn) ==
    IF cur = "None"
    THEN IF conn = "ok"
         THEN [ index |-> "handle", raised |-> FALSE, built |-> 1 ]
         ELSE [ index |-> "None", raised |-> TRUE, built |-> 1 ]
    ELSE [ index |-> cur, raised |-> FALSE, built |-> 0 ]

\* "alpha": 1.0
Alpha == 1

RetrieverConfig(top_k, enable_reranking) ==
    [ dense_similarity_top_k |-> top_k, alpha |-> Alpha,
      enable_reranking |-> enable_reranking ]

\* The synchronous part of a retrieval operation op run for invocation r:
\* get the index, configure the retriever (conf: "ok" or "fail"), dispatch the
\* query to the executor and await it.
BeginRetrieval(r, op, top_k, enable_reranking, conn, conf) ==
    LET g == _get_index(index, conn)
        r1 == [ r EXCEPT !.op = op, !.connects = @ + g.built ]
    IN  IF g.raised
        THEN [ r1 EXCEPT !.failed = "connect", !.retrieved = "raised" ]
        ELSE IF conf = "fail"
        THEN [ r1 EXCEPT !.failed = "configure", !.retrieved = "raised" ]
        ELSE [ r1 EXCEPT !.retriever_config = RetrieverConfig(top_k, enable_reranking),
                         !.queries = @ + 1,
                         !.pc = "await_index" ]

\* retrieve_candidates_by_qualifications(required, preferred, top_k,
\* enable_reranking): the query is built before the index is looked up
retrieve_candidates_by_qualifications(r, required, preferred, top_k, enable_reranking, conn, conf) ==
    BeginRetrieval([ r EXCEPT !.required_quals = required,
                              !.preferred_quals = preferred,
                              !.query = _build_qualifications_query(required, preferred) ],
                   "retrieve_candidates_by_qualifications", top_k,
                   enable_reranking, conn, conf)

\* retrieve_candidates(job_description, top_k, enable_reranking), the
\* job_description holding title, required and preferred qualifications and
\* experience_level
retrieve_candidates(r, title, required, preferred, experience_level, top_k, enable_reranking, conn, conf) ==
    BeginRetrieval([ r EXCEPT !.required_quals = required,
                              !.preferred_quals = preferred,
                              !.query = _build_search_query(title, required, preferred,
                                                            experience_level) ],
                   "retrieve_candidates", top_k, enable_reranking, conn, conf)

\* the query of search_by_skills is built once the retriever is configured
WithSkillsQuery(r, skills) ==
    IF r.pc = "await_index" THEN [ r EXCEPT !.query = SkillsQuery \o skills ] ELSE r

\* SearchBySkillsBegin with "enable_reranking": True
SearchBySkillsReranking(r, top_k, conn, conf) ==
    WithSkillsQuery(BeginRetrieval(r, "search_by_skills", top_k, BoolV(TRUE), conn, conf),
                    r.args.skills)

\* search_by_skills(skills, top_k): "enable_reranking": False
SearchBySkillsBegin(r, top_k, conn, conf) ==
    WithSkillsQuery(BeginRetrieval(r, "search_by_skills", top_k, BoolV(FALSE), conn, conf),
                    r.args.skills)

(***************************************************************************)
(* The tool facades                                                        *)
(***************************************************************************)
ServiceUnavailable == "LlamaCloud service is not available. Check configuration and API key."

Done(r, result) == [ r EXCEPT !.pc = "done", !.result = result ]

\* FindExcept letting the exception through
FindReraises(detail) == Escapes(detail)

\* find_matching_candidates: except Exception as e
FindExcept(detail) == ErrorEnvelope("Failed to find matching candidates: ", detail)

\* SkillsExcept letting the exception through
SkillsReraises(detail) == Escapes(detail)

\* search_candidates_by_skills: except Exception as e
SkillsExcept(detail) == ErrorEnvelope("Failed to search candidates by skills: ", detail)

\* score_candidate_qualifications: except Exception as e
ScoreExcept(detail) == ErrorEnvelope("Failed to score candidate qualifications: ", detail)

\* extract_job_requirements: except ValueError / json.JSONDecodeError /
\* Exception, tried in this order; JSONDecodeError is a ValueError
ExtractExcept(class, detail) ==
    IF class \in { "ValueError", "JSONDecodeError" }
    THEN ErrorEnvelope("Configuration error: ", detail)
    ELSE ErrorEnvelope("Failed to extract job requirements: ", detail)

\* FindEnvelope with the raw records counted
FindEnvelopeCountsRecords(r, candidates) ==
    [ NoResult EXCEPT
        !.kind = "success",
        !.search_type = "qualifications_based",
        !.total_candidates = Len(r.nodes),
        !.search_parameters =
            [ NoParameters EXCEPT !.top_k = r.args.top_k,
                                  !.enable_reranking = r.args.enable_reranking ],
        !.candidates = candidates ]

\* find_matching_candidates: the response built from the candidates
FindEnvelope(r, candidates) ==
    [ NoResult EXCEPT
        !.kind = "success",
        !.search_type = "qualifications_based",
        !.total_candidates = Len(candidates),
        !.search_parameters =
            [ top_k |-> r.args.top_k,
              enable_reranking |-> r.args.enable_reranking,
              required_qualifications |-> ParseQuals(r.args.required_qualifications),
              preferred_qualifications |->
                  IF r.args.preferred_qualifications # << >>
                  THEN ParseQuals(r.args.preferred_qualifications)
                  ELSE << >> ],
        !.candidates = candidates ]

\* search_candidates_by_skills: the response built from the candidates
SkillsEnvelope(r, candidates) ==
    [ NoResult EXCEPT
        !.kind = "success",
        !.search_skills = ParseQuals(r.args.skills),
        !.total_candidates = Len(candidates),
        !.search_parameters = [ NoParameters EXCEPT !.top_k = r.args.top_k ],
        !.candidates = candidates ]

\* the caller of a retrieval operation, once the operation has raised or
\* returned its list; search_by_skills has no caller in the repository, its
\* list or its exception is the result
AfterRetrieval(r, candidates) ==
    CASE r.tool = "find_matching_candidates" ->
             IF r.retrieved = "raised" THEN Done(r, FindExcept(r.failed))
             ELSE Done(r, FindEnvelope(r, candidates))
      [] r.tool = "search_candidates_by_skills" ->
             IF r.retrieved = "raised" THEN Done(r, SkillsExcept(r.failed))
             ELSE Done(r, SkillsEnvelope(r, candidates))
      [] OTHER ->
             IF r.retrieved = "raised" THEN Done(r, Escapes(r.failed))
             ELSE Done(r, [ NoResult EXCEPT !.kind = "list", !.candidates = candidates ])

\* the facade around a retrieval operation that has been started: it awaits
\* the operation, or handles what the operation raised before its await
Facade(r) == IF r.pc = "await_index" THEN r ELSE AfterRetrieval(r, << >>)

Started(tool, args) == [ IdleInv EXCEPT !.tool = tool, !.args = args ]

find_matching_candidates(i, required, preferred, top_k, reranking, conn, conf) ==
    /\ proc = "serving"
    /\ inv[i].pc = "idle"
    /\ LET r == Started("find_matching_candidates",
                        [ NoArgs EXCEPT !.required_qualifications = required,
                                        !.preferred_qualifications = preferred,
                                        !.top_k = top_k,
                                        !.enable_reranking = reranking ])
           valid == /\ llamacloud_service = "ready"
                    /\ ~Blank(required)
                    /\ ~BadTopK(top_k)
           begun == retrieve_candidates_by_qualifications(
                        r, ParseQuals(required),
                        IF preferred # << >> THEN ParseQuals(preferred) ELSE << >>,
                        top_k, reranking, conn, conf)
       IN  /\ inv' = [ inv EXCEPT ![i] =
                 IF llamacloud_service # "ready"
                 THEN Done(r, ErrorEnvelope(ServiceUnavailable, ""))
                 ELSE IF Blank(required)
                 THEN Done(r, ErrorEnvelope("Required qualifications cannot be empty", ""))
                 ELSE IF BadTopK(top_k)
                 THEN Done(r, ErrorEnvelope("top_k must be an integer between 1 and 50", ""))
                 ELSE Facade(begun) ]
           /\ index' = IF valid THEN _get_index(index, conn).index ELSE index
    /\ UNCHANGED << env, proc, openai_service, llamacloud_service >>

search_candidates_by_skills(i, skills, top_k, conn, conf) ==
    /\ proc = "serving"
    /\ inv[i].pc = "idle"
    /\ LET r == Started("search_candidates_by_skills",
                        [ NoArgs EXCEPT !.skills = skills, !.top_k = top_k ])
           valid == /\ llamacloud_service = "ready"
                    /\ ~Blank(skills)
                    /\ ~BadTopK(top_k)
           begun == retrieve_candidates(r, SkillsBasedSearch, ParseQuals(skills), << >>,
                                        << >>, top_k, BoolV(TRUE), conn, conf)
       IN  /\ inv' = [ inv EXCEPT ![i] =
                 IF llamacloud_service # "ready"
                 THEN Done(r, ErrorEnvelope(ServiceUnavailable, ""))
                 ELSE IF Blank(skills)
                 THEN Done(r, ErrorEnvelope("Skills parameter cannot be empty", ""))
                 ELSE IF BadTopK(top_k)
                 THEN Done(r, ErrorEnvelope("top_k must be an integer between 1 and 50", ""))
                 ELSE Facade(begun) ]
           /\ index' = IF valid THEN _get_index(index, conn).index ELSE index
    /\ UNCHANGED << env, proc, openai_service, llamacloud_service >>

\* LlamaCloudService.search_by_skills called on the service itself
search_by_skills(i, skills, top_k, conn, conf) ==
    /\ proc = "serving"
    /\ llamacloud_service = "ready"
    /\ inv[i].pc = "idle"
    /\ LET r == Started("none", [ NoArgs EXCEPT !.skills = skills, !.top_k = top_k ])
       IN  /\ inv' = [ inv EXCEPT ![i] = Facade(SearchBySkillsBegin(r, top_k, conn, conf)) ]
           /\ index' = _get_index(index, conn).index
    /\ UNCHANGED << env, proc, openai_service, llamacloud_service >>

\* LlamaCloudService.retrieve_candidates called on the service itself, with
\* a job_description of this title and these required qualifications
CallRetrieveCandidates(i, title, required, top_k, enable_reranking, conn, conf) ==
    /\ proc = "serving"
    /\ llamacloud_service = "ready"
    /\ inv[i].pc = "idle"
    /\ LET r == Started("none", [ NoArgs EXCEPT !.top_k = top_k,
                                                !.enable_reranking = enable_reranking ])
       IN  /\ inv' = [ inv EXCEPT ![i] =
                 Facade(retrieve_candidates(r, title, required, << >>, << >>, top_k,
                                            enable_reranking, conn, conf)) ]
           /\ index' = _get_index(index, conn).index
    /\ UNCHANGED << env, proc, openai_service, llamacloud_service >>

\* LlamaCloudService._build_qualifications_query called on the service
\* itself: the str it returns is the result
CallBuildQualificationsQuery(i, required, preferred) ==
    /\ proc = "serving"
    /\ llamacloud_service = "ready"
    /\ inv[i].pc = "idle"
    /\ inv' = [ inv EXCEPT ![i] =
           Done([ IdleInv EXCEPT !.tool = "_build_qualifications_query",
                                 !.required_quals = required,
                                 !.preferred_quals = preferred,
                                 !.query = _build_qualifications_query(required, preferred) ],
                [ NoResult EXCEPT !.kind = "str" ]) ]
    /\ UNCHANGED << env, proc, openai_service, llamacloud_service, index >>

\* LlamaCloudService._build_search_query called on the service itself: the
\* str it returns is the result
CallBuildSearchQuery(i, job_description) ==
    /\ proc = "serving"
    /\ llamacloud_service = "ready"
    /\ inv[i].pc = "idle"
    /\ inv' = [ inv EXCEPT ![i] =
           Done([ IdleInv EXCEPT
                    !.tool = "_build_search_query",
                    !.job_description = job_description,
                    !.query = _build_search_query(job_description.title,
                                                  job_description.required_qualifications,
                                                  job_description.preferred_qualifications,
                                                  job_description.experience_level) ],
                [ NoResult EXCEPT !.kind = "str" ]) ]
    /\ UNCHANGED << env, proc, openai_service, llamacloud_service, index >>

(***************************************************************************)
(* The index answers the query an invocation awaits.                       *)
(***************************************************************************)
\* retriever.retrieve(query) raises in the executor: the await raises, the
\* operation logs and re-raises
\* QueryFailure with the exception swallowed and an empty list returned
QueryFailureSwallowed(r) == [ r EXCEPT !.failed = "query", !.retrieved = "list" ]

QueryFailure(r) == [ r EXCEPT !.failed = "query", !.retrieved = "raised" ]

IndexQueryFails(i) ==
    /\ inv[i].pc = "await_index"
    /\ inv' = [ inv EXCEPT ![i] = AfterRetrieval(QueryFailure(inv[i]), << >>) ]
    /\ UNCHANGED << env, proc, openai_service, llamacloud_service, index >>

\* the operation after candidates.sort: it returns the list, or logs and
\* re-raises the exception of the sort
AfterSort(r, ranked) ==
    AfterRetrieval([ r EXCEPT !.failed = IF ranked.raised THEN "sort" ELSE "none",
                              !.retrieved = IF ranked.raised THEN "raised" ELSE "list" ],
                   ranked.candidates)

\* Retrieved with seen_files kept on the service: a candidate whose file
\* another invocation has listed is dropped
RetrievedSharingSeenFiles(r, nodes, candidates) ==
    LET seen == { c.file_name : c \in UNION { Range(inv[j].candidates) : j \in Invs } }
        kept == SelectSeq(candidates, LAMBDA c : c.file_name = << >> \/ c.file_name \notin seen)
    IN  AfterSort([ r EXCEPT !.nodes = nodes, !.candidates = kept ], Rank(kept))

\* retriever.retrieve(query) returns the raw records nodes; candidates is
\* the list after the loop over them
Retrieved(r, nodes, candidates) ==
    AfterSort([ r EXCEPT !.nodes = nodes, !.candidates = candidates ], Rank(candidates))

\* IndexQueryReturns with the records given to every invocation that awaits
\* the index
IndexQueryReturnsToAll(i, results) ==
    /\ inv[i].pc = "await_index"
    /\ \E nodes \in results :
           inv' = [ j \in Invs |->
                      IF inv[j].pc = "await_index"
                      THEN Retrieved(inv[j], nodes, ProcessNodes(nodes))
                      ELSE inv[j] ]
    /\ UNCHANGED << env, proc, openai_service, llamacloud_service, index >>

\* the awaited query of invocation i returns one of results
IndexQueryReturns(i, results) ==
    /\ inv[i].pc = "await_index"
    /\ \E nodes \in results :
           inv' = [ inv EXCEPT ![i] = Retrieved(inv[i], nodes, ProcessNodes(nodes)) ]
    /\ UNCHANGED << env, proc, openai_service, llamacloud_service, index >>

(***************************************************************************)
(* The tools that call the text-generation service.                        *)
(***************************************************************************)
\* len(jd_text.strip()) < 10
MinJdLength == 10

extract_job_requirements(i, jd_text) ==
    /\ proc = "serving"
    /\ inv[i].pc = "idle"
    /\ LET r == Started("extract_job_requirements", [ NoArgs EXCEPT !.jd_text = jd_text ])
       IN  inv' = [ inv EXCEPT ![i] =
               IF Blank(jd_text)
               THEN Done(r, ErrorEnvelope("Job description text cannot be empty", ""))
               ELSE IF Len(Strip(jd_text)) < MinJdLength
               THEN Done(r, ErrorEnvelope("Job description text is too short to be meaningful", ""))
               ELSE [ r EXCEPT !.pc = "await_llm", !.llm_calls = @ + 1 ] ]
    /\ UNCHANGED << env, proc, openai_service, llamacloud_service, index >>

\* score_candidate_qualifications with the availability check of the
\* retrieval tools in front
ScoreRequiresIndexService(i, candidate_resume, required, preferred) ==
    /\ proc = "serving"
    /\ inv[i].pc = "idle"
    /\ LET r == Started("score_candidate_qualifications",
                        [ NoArgs EXCEPT !.candidate_resume = candidate_resume,
                                        !.required_qualifications = required,
                                        !.preferred_qualifications = preferred ])
       IN  inv' = [ inv EXCEPT ![i] =
               IF llamacloud_service # "ready"
               THEN Done(r, ErrorEnvelope(ServiceUnavailable, ""))
               ELSE IF Blank(candidate_resume)
               THEN Done(r, ErrorEnvelope("Candidate resume cannot be empty", ""))
               ELSE IF Blank(required)
               THEN Done(r, ErrorEnvelope("Required qualifications cannot be empty", ""))
               ELSE IF OpenAIServiceRaises(env)
               THEN Done(r, ScoreExcept("OPENAI_API_KEY is required"))
               ELSE [ r EXCEPT !.pc = "await_llm", !.llm_calls = @ + 1,
                               !.required_quals = ParseQuals(required),
                               !.preferred_quals = IF preferred # << >>
                                                   THEN ParseQuals(preferred)
                                                   ELSE << >> ] ]
    /\ UNCHANGED << env, proc, openai_service, llamacloud_service, index >>

score_candidate_qualifications(i, candidate_resume, required, preferred) ==
    /\ proc = "serving"
    /\ inv[i].pc = "idle"
    /\ LET r == Started("score_candidate_qualifications",
                        [ NoArgs EXCEPT !.candidate_resume = candidate_resume,
                                        !.required_qualifications = required,
                                        !.preferred_qualifications = preferred ])
       IN  inv' = [ inv EXCEPT ![i] =
               IF Blank(candidate_resume)
               THEN Done(r, ErrorEnvelope("Candidate resume cannot be empty", ""))
               ELSE IF Blank(required)
               THEN Done(r, ErrorEnvelope("Required qualifications cannot be empty", ""))
               ELSE IF OpenAIServiceRaises(env)
               THEN Done(r, ScoreExcept("OPENAI_API_KEY is required"))
               ELSE [ r EXCEPT !.pc = "await_llm", !.llm_calls = @ + 1,
                               !.required_quals = ParseQuals(required),
                               !.preferred_quals = IF preferred # << >>
                                                   THEN ParseQuals(preferred)
                                                   ELSE << >> ] ]
    /\ UNCHANGED << env, proc, openai_service, llamacloud_service, index >>

\* What the awaited client.post and the handling of its response come to:
\*   timeout, request_error  httpx.TimeoutException, httpx.RequestError
\*   http_error              a status other than 200
\*   bad_body                response.json() raises json.JSONDecodeError
\*   no_choices              data["choices"][0]["message"]["content"] raises
\*   empty_content           content is empty
\*   malformed               json.loads(content) raises json.JSONDecodeError
\*   ok                      content parses
Responses ==
    { "timeout", "request_error", "http_error", "bad_body", "no_choices",
      "empty_content", "malformed", "ok" }

\* the class of the exception extract_job_description_from_text raises
ExtractRaises(response) ==
    CASE response = "bad_body" -> "JSONDecodeError"
      [] response = "no_choices" -> "KeyError"
      [] OTHER -> "Exception"

\* str(e) of the exception OpenAIService.score_candidate_qualifications
\* raises: the two ValueErrors it names, or the one of the client
ScoreRaises(response) ==
    CASE response = "empty_content" -> "No content in OpenAI response"
      [] response = "malformed" -> "Failed to parse scoring data from LLM response"
      [] OTHER -> response

\* score_candidate_qualifications: the scoring result, serialized
ScoreSuccess(r, required_scores, preferred_scores) ==
    [ NoResult EXCEPT
        !.kind = "success",
        !.scoring = ScoringResult(r.required_quals, r.preferred_quals,
                                  required_scores, preferred_scores) ]

\* a content that parses, "ok", is one without scores for the scoring tool:
\* scoring_data.get("requiredScores", [])
OpenAIResponds(i, response) ==
    /\ inv[i].pc = "await_llm"
    /\ LET r == inv[i]
           ok == [ NoResult EXCEPT !.kind = "success" ]
           failed == [ r EXCEPT !.failed = response ]
       IN  inv' = [ inv EXCEPT ![i] =
               IF response = "ok"
               THEN IF r.tool = "extract_job_requirements" THEN Done(r, ok)
                    ELSE Done(r, ScoreSuccess(r, << >>, << >>))
               ELSE IF r.tool = "extract_job_requirements"
               THEN Done(failed, ExtractExcept(ExtractRaises(response), response))
               ELSE Done(failed, ScoreExcept(ScoreRaises(response))) ]
    /\ UNCHANGED << env, proc, openai_service, llamacloud_service, index >>

\* the content of the response to the scoring request parses and holds the
\* lists requiredScores and preferredScores
OpenAIScores(i, required_scores, preferred_scores) ==
    /\ inv[i].pc = "await_llm"
    /\ inv[i].tool = "score_candidate_qualifications"
    /\ inv' = [ inv EXCEPT ![i] =
           IF SumRaises(required_scores \o preferred_scores)
           THEN Done([ inv[i] EXCEPT !.failed = "bad_score" ], ScoreExcept("TypeError"))
           ELSE Done(inv[i], ScoreSuccess(inv[i], required_scores, preferred_scores)) ]
    /\ UNCHANGED << env, proc, openai_service, llamacloud_service, index >>

(***************************************************************************)
(* server.py                                                               *)
(***************************************************************************)
\* job_tools = JobTools(); math_tools = MathTools();
\* candidate_tools = CandidateTools()
Startup ==
    /\ proc = "starting"
    /\ IF JobToolsRaises(env)
       THEN /\ proc' = "crashed"
            /\ UNCHANGED << openai_service, llamacloud_service >>
       ELSE /\ proc' = "serving"
            /\ openai_service' = "ready"
            /\ llamacloud_service' = CandidateToolsService(env)
    /\ UNCHANGED << env, index, inv >>

\* the RPC layer sends the tool's result; the slot serves the next call
Return(i) ==
    /\ inv[i].pc = "done"
    /\ inv' = [ inv EXCEPT ![i] = IdleInv ]
    /\ UNCHANGED << env, proc, openai_service, llamacloud_service, index >>

(***************************************************************************)
(* The inputs of the model.                                                *)
(***************************************************************************)
\* text arguments: every string over TextAlphabet of at most MaxTextLen
\* characters
TextAlphabet == { " ", ",", "a" }

MaxTextLen == 2

Texts == UNION { [ 1 .. n -> TextAlphabet ] : n \in 0 .. MaxTextLen }

\* a few texts, where the text is not what is looked at
SomeTexts == { << >>, << " " >>, << "a" >>, << " ", "a", " " >> }

\* "Python, SQL" and "AWS"
PythonSQL == << "P", "y", "t", "h", "o", "n", ",", " ", "S", "Q", "L" >>

AWS == << "A", "W", "S" >>

\* job descriptions: the short texts, one of MinJdLength characters, and one
\* that is shorter than that once stripped
SampleJd == << "E", "n", "g", "i", "n", "e", "e", "r", " ", "1" >>

PaddedJd == << " ", "E", "n", "g", "i", "n", "e", "e", "r", " " >>

JdTexts == Texts \cup { SampleJd, PaddedJd }

\* top_k: the integers within TopKSlack of either limit, and a value that is
\* not an int
TopKSlack == 1

TopKs ==
    { NumV(n) : n \in (MinTopK - TopKSlack) .. (MinTopK + TopKSlack) }
    \cup { NumV(n) : n \in (MaxTopK - TopKSlack) .. (MaxTopK + TopKSlack) }
    \cup { None }

Booleans == { BoolV(TRUE), BoolV(FALSE) }

Outcomes == { "ok", "fail" }

\* file names and contents of the raw records
FileA == << "a", "l", "_", "b", "o", ".", "p" >>

FileB == << "r", "e", "s", "u", "m", "e", "_", "b" >>

FileC == << "x", "/", "j", "o", "-", "d", "o", ".", "v", "2", ".", "t", "x", "t" >>

ContentName == << "C", "y", " ", "D", "i", "\n", "S" >>

ContentPlain == << "s", "q", "l" >>

MetaFile(f) == Dict(StrV(f), Absent, Absent, FALSE)

Id(n) == StrV(<< "n", Digit[n + 1] >>)

\* raw records for the deduplication and the ranking: two records of one
\* file with the lower score first, a wrapped record of another file, and
\* a record without a file name
RecA1 == FlatNode(Id(1), Absent, NumV(3), StrV(ContentPlain), Absent, MetaFile(FileA), NoMeta("absent"))

RecA2 == FlatNode(Id(2), Absent, NumV(7), StrV(ContentPlain), Absent, MetaFile(FileA), NoMeta("absent"))

RecB == WrappedNode(Absent, Absent, NumV(7), Absent, NoMeta("absent"),
                    Inner(Id(3), StrV(ContentName), Absent, MetaFile(FileB), NoMeta("absent")))

RecE == FlatNode(Id(4), Absent, NumV(3), StrV(ContentPlain), Absent, EmptyDict, NoMeta("absent"))

RankRecords == { RecA1, RecA2, RecB, RecE }

\* the longest result of the index
MaxNodes == 5

SeqsUpTo(S, n) == UNION { [ 1 .. m -> S ] : m \in 0 .. n }

RankResults == SeqsUpTo(RankRecords, MaxNodes)

\* records whose score is None (NodeWithScore.score is optional) or a str
RecNone == FlatNode(Id(5), Absent, None, StrV(ContentPlain), Absent, MetaFile(FileC), NoMeta("absent"))

RecHi == FlatNode(Id(6), Absent, StrV(<< "h", "i" >>), StrV(ContentPlain), Absent, EmptyDict, NoMeta("absent"))

RecHo == FlatNode(Id(7), Absent, StrV(<< "h", "o" >>), StrV(ContentPlain), Absent, EmptyDict, NoMeta("absent"))

\* results of one or two records with such scores
ScoreResults ==
    { nodes \in SeqsUpTo({ RecNone, RecHi, RecHo, RecA1 }, 2) : nodes # << >> }

\* a few results, where the records are not what is looked at
SomeResults == { << >>, << RecB >>, << RecA1, RecA2, RecE >>, << RecNone, RecA1 >> }

\* raw records for the normalizer: every attribute missing, None, of the
\* expected type or of another type
IdValues == { Absent, None, Id(1), NumV(7) }

ScoreValues == { Absent, None, NumV(3), StrV(<< "h", "i" >>) }

TextValues == { Absent, None, StrV(ContentName), NumV(5) }

MetaValues ==
    { NoMeta("absent"), NoMeta("none"), NoMeta("str"), EmptyDict,
      MetaFile(FileA), MetaFile(FileB),
      Dict(ListV, Absent, Absent, FALSE),
      Dict(None, EmptyStr, StrV(FileC), TRUE) }

FlatRecords ==
    { FlatNode(id, Absent, score, text, content, metadata, extra) :
        id \in IdValues, score \in ScoreValues, text \in TextValues,
        content \in { Absent, StrV(ContentPlain) }, metadata \in MetaValues,
        extra \in { NoMeta("absent"), NoMeta("none") } }

WrappedRecords ==
    { WrappedNode(id, Id(2), score, text, metadata,
                  Inner(Absent, itext, Absent, imeta, NoMeta("absent"))) :
        id \in { Absent, None }, score \in { Absent, None, NumV(3) },
        text \in { Absent, StrV(ContentPlain) },
        metadata \in { NoMeta("absent"), NoMeta("str"), MetaFile(FileA) },
        itext \in TextValues, imeta \in MetaValues }

NormalizerRecords == FlatRecords \cup WrappedRecords

\* file names of the name inference: the three of the specification, and one
\* without a base name
MariaGarciaPdf ==
    << "m", "a", "r", "i", "a", "_", "g", "a", "r", "c", "i", "a", ".", "p",
       "d", "f" >>

ResumeFinalPdf ==
    << "r", "e", "s", "u", "m", "e", "_", "f", "i", "n", "a", "l", ".", "p",
       "d", "f" >>

JaneDoeResumePdf ==
    << "j", "a", "n", "e", "_", "d", "o", "e", "_", "r", "e", "s", "u", "m",
       "e", ".", "p", "d", "f" >>

DotPdf ==
    << ".", "p", "d", "f" >>

NameFiles == { MariaGarciaPdf, ResumeFinalPdf, JaneDoeResumePdf, DotPdf, FileC }

\* a record of each of these files, with and without a name in its content
NameRecords ==
    { FlatNode(Id(8), Absent, NumV(3), StrV(content), Absent, MetaFile(f), NoMeta("absent")) :
        f \in NameFiles, content \in { ContentName, ContentPlain } }

\* contents for the three patterns: a name after the label "Name:"; one
\* before a line break and another after the label; one before a line
\* break; and contents longer than NameScanLimit characters, with a name
\* after the limit and with one that the limit cuts
ContentLabel == << "x", " ", "N", "a", "m", "e", ":", " ", "A", "l", " ", "B", "o" >>

ContentBoth == << "z", " ", "E", "d", " ", "F", "y", "\n", "N", "a", "m", "e", ":", " ", "A", "l", " ", "B", "o" >>

ContentNewline == << "z", " ", "E", "d", " ", "F", "y", " ", "\n" >>

Pad(n) == [ k \in 1 .. n |-> "z" ]

ContentBeyond == Pad(NameScanLimit) \o << "\n", "N", "a", "m", "e", ":", " ", "A", "l", " ", "B", "o", "\n" >>

ContentCut == Pad(NameScanLimit - 11) \o << "N", "a", "m", "e", ":", " ", "A", "l", " ", "B", "o", "b", "\n" >>

\* a file whose name gives the words of the sentinel
UnknownCandidatePdf ==
    << "u", "n", "k", "n", "o", "w", "n", "_", "c", "a", "n", "d", "i", "d", "a", "t", "e", ".", "p", "d", "f" >>

\* records without a file name of each of these contents, and the records of
\* unknown_candidate.pdf and maria_garcia.pdf with a name in their content
ContentRecords ==
    { FlatNode(Id(9), Absent, NumV(3), StrV(content), Absent, EmptyDict, NoMeta("absent")) :
        content \in { ContentLabel, ContentBoth, ContentNewline, ContentBeyond, ContentCut } }
    \cup { FlatNode(Id(9), Absent, NumV(3), StrV(content), Absent, MetaFile(f), NoMeta("absent")) :
             f \in { UnknownCandidatePdf, MariaGarciaPdf }, content \in { ContentBoth, ContentPlain } }

SingleResults == { << node >> : node \in NormalizerRecords \cup NameRecords \cup ContentRecords }

AllResults == RankResults \cup ScoreResults \cup SingleResults

\* qualification lists: up to MaxQuals strings, among them the empty one,
\* one that ends with a space and one that holds a comma
MaxQuals == 2

QualStrings == { << >>, << "a" >>, << "b", " " >>, << "c", ",", " ", "d" >> }

QualLists == SeqsUpTo(QualStrings, MaxQuals)

\* job descriptions: every list of QualLists as the required qualifications,
\* with and without a title, preferred qualifications and an experience
\* level; the four other fields empty, or of characters that no label and
\* no other field holds
Senior == << "s", "e", "n", "i", "o", "r" >>

JobDescriptions ==
    { JobDescriptionData(title, other[1], other[2], required, preferred, other[3],
                         experience_level, other[4]) :
        title \in { << >>, << "Q", "A" >> },
        required \in QualLists,
        preferred \in { << >>, << << "a" >> >>, << << "b", " " >>, << >> >> },
        experience_level \in { << >>, Senior },
        other \in { << << >>, << >>, << >>, << >> >>,
                    << << "1" >>, << "2" >>, << "3" >>, << "4" >> >> } }

\* the "score" of an item of the response: missing, the integers up to
\* MaxScoreValue, or a str
MaxScoreValue == 3

ScoreItems == { Absent, StrV(<< "2" >>) } \cup { NumV(n) : n \in 0 .. MaxScoreValue }

MaxRequiredScores == 2

\* requiredScores of up to MaxRequiredScores items, preferredScores of one
\* item at most
RequiredScoreLists == SeqsUpTo(ScoreItems, MaxRequiredScores)

PreferredScoreLists == { << >> } \cup { << item >> : item \in ScoreItems }

\* an environment in which both services are constructed
LiveEnv ==
    [ OPENAI_API_KEY |-> "sk-real", LLAMA_CLOUD_API_KEY |-> "llx-real",
      LLAMA_CLOUD_INDEX_NAME |-> "resume_public", LLAMA_INDEX_AVAILABLE |-> TRUE ]

\* top_k of the end-to-end scenario
ScenarioTopK == 5

(***************************************************************************)
(* Specifications                                                          *)
(***************************************************************************)
InitWith(envs) ==
    /\ env \in envs
    /\ proc = "starting"
    /\ openai_service = "unset"
    /\ llamacloud_service = "unset"
    /\ index = "None"
    /\ inv = [ i \in Invs |-> IdleInv ]

Init == InitWith(Envs)

\* The server with MaxInv invocations in progress at a time, in three
\* environments: both services constructed, no index service, and no key
\* for the text-generation service.
ConcurrentEnvs ==
    { LiveEnv,
      [ LiveEnv EXCEPT !.LLAMA_CLOUD_API_KEY = "" ],
      [ LiveEnv EXCEPT !.OPENAI_API_KEY = "" ] }

InitConcurrent == InitWith(ConcurrentEnvs)

Next ==
    \/ Startup
    \/ \E i \in Invs, t \in { << >>, << "a" >> }, c \in Outcomes :
           find_matching_candidates(i, t, << >>, NumV(MinTopK), BoolV(FALSE), c, "ok")
    \/ \E i \in Invs, c \in Outcomes :
           search_candidates_by_skills(i, << "a" >>, NumV(MaxTopK), c, "ok")
    \/ \E i \in Invs, c, f \in Outcomes :
           search_by_skills(i, << "a" >>, NumV(MinTopK), c, f)
    \/ \E i \in Invs :
           CallRetrieveCandidates(i, << "a" >>, << >>, NumV(MinTopK), BoolV(FALSE), "ok", "ok")
    \/ \E i \in Invs : extract_job_requirements(i, SampleJd)
    \/ \E i \in Invs : score_candidate_qualifications(i, << "a" >>, << "a" >>, << >>)
    \/ \E i \in Invs : IndexQueryFails(i)
    \/ \E i \in Invs : IndexQueryReturns(i, { << RecA1 >>, << RecNone, RecA1 >> })
    \/ \E i \in Invs, response \in { "ok", "timeout" } : OpenAIResponds(i, response)
    \/ \E i \in Invs : OpenAIScores(i, << NumV(2) >>, << >>)
    \/ \E i \in Invs : Return(i)

Spec == InitConcurrent /\ [][Next]_vars

\* The tools called one at a time in every environment: with every text
\* and a top_k of the scenario, and with every top_k and a few texts.
NextTools ==
    \/ Startup
    \/ \E t \in Texts, p \in { << >>, << "a" >> }, b \in Booleans, c, f \in Outcomes :
           find_matching_candidates(1, t, p, NumV(ScenarioTopK), b, c, f)
    \/ \E t \in SomeTexts, k \in TopKs, c, f \in Outcomes :
           find_matching_candidates(1, t, << >>, k, BoolV(TRUE), c, f)
    \/ \E t \in Texts, c, f \in Outcomes :
           search_candidates_by_skills(1, t, NumV(ScenarioTopK), c, f)
    \/ \E t \in SomeTexts, k \in TopKs, c, f \in Outcomes :
           search_candidates_by_skills(1, t, k, c, f)
    \/ \E t \in SomeTexts, k \in TopKs, c, f \in Outcomes :
           search_by_skills(1, t, k, c, f)
    \/ \E t \in { << >>, << "a" >> }, k \in TopKs, b \in Booleans, c, f \in Outcomes :
           CallRetrieveCandidates(1, t, << << "a" >> >>, k, b, c, f)
    \/ \E t \in JdTexts : extract_job_requirements(1, t)
    \/ \E t \in SomeTexts, q \in Texts, p \in { << >>, << "a" >> } :
           score_candidate_qualifications(1, t, q, p)
    \/ IndexQueryFails(1)
    \/ IndexQueryReturns(1, SomeResults)
    \/ \E response \in Responses : OpenAIResponds(1, response)
    \/ \E rs \in { << NumV(1) >>, << NumV(2), None >> } : OpenAIScores(1, rs, << NumV(2) >>)
    \/ Return(1)

SpecTools == Init /\ [][NextTools]_vars

\* The retrieval operations, one at a time, over every result of the index.
InitRetrieval == InitWith({ LiveEnv })

NextRetrieval ==
    \/ Startup
    \/ \E b \in Booleans :
           find_matching_candidates(1, PythonSQL, AWS, NumV(ScenarioTopK), b, "ok", "ok")
    \/ search_candidates_by_skills(1, PythonSQL, NumV(ScenarioTopK), "ok", "ok")
    \/ search_by_skills(1, PythonSQL, NumV(ScenarioTopK), "ok", "ok")
    \/ IndexQueryFails(1)
    \/ IndexQueryReturns(1, AllResults)
    \/ Return(1)

SpecRetrieval == InitRetrieval /\ [][NextRetrieval]_vars

\* The query builders called with every pair of qualification lists and
\* with every job description.
NextQueries ==
    \/ Startup
    \/ \E required, preferred \in QualLists :
           CallBuildQualificationsQuery(1, required, preferred)
    \/ \E job_description \in JobDescriptions : CallBuildSearchQuery(1, job_description)
    \/ Return(1)

SpecQueries == InitRetrieval /\ [][NextQueries]_vars

\* The scoring tool, over every response with up to MaxRequiredScores
\* required scores.
NextScoring ==
    \/ Startup
    \/ \E q \in { << "," >>, << "a" >>, PythonSQL }, p \in { << >>, << "a" >> } :
           score_candidate_qualifications(1, << "a" >>, q, p)
    \/ \E response \in Responses : OpenAIResponds(1, response)
    \/ \E rs \in RequiredScoreLists, ps \in PreferredScoreLists : OpenAIScores(1, rs, ps)
    \/ Return(1)

SpecScoring == InitRetrieval /\ [][NextScoring]_vars

\* The four tools with MaxInv invocations in progress at a time, where
\* every external call that has been issued ends: the awaited query of the
\* index returns or raises, and so does the awaited request to the
\* text-generation service; the event loop then resumes the invocation that
\* awaits it.
ExternalCallEnds(i) ==
    \/ IndexQueryFails(i)
    \/ IndexQueryReturns(i, { << RecNone, RecA1 >> })
    \/ \E response \in { "ok", "timeout" } : OpenAIResponds(i, response)

NextLive ==
    \/ Startup
    \/ \E i \in Invs, c \in Outcomes :
           find_matching_candidates(i, << "a" >>, << >>, NumV(MinTopK), BoolV(FALSE), c, "ok")
    \/ \E i \in Invs :
           search_candidates_by_skills(i, << "a" >>, NumV(MaxTopK), "ok", "ok")
    \/ \E i \in Invs : extract_job_requirements(i, SampleJd)
    \/ \E i \in Invs : score_candidate_qualifications(i, << "a" >>, << "a" >>, << >>)
    \/ \E i \in Invs : ExternalCallEnds(i)
    \/ \E i \in Invs : Return(i)

SpecLive == InitRetrieval /\ [][NextLive]_vars /\ \A i \in Invs : WF_vars(ExternalCallEnds(i))

(***************************************************************************)
(* Properties of the retrieval operations                                  *)
(***************************************************************************)
\* the index has answered the query of invocation r with the records r.nodes
Answered(r) == r.pc = "done" /\ r.op # "none" /\ r.failed \in { "none", "sort" }

\* the records as the normalizer returns them, in index order
Normalized(nodes) == [ i \in DOMAIN nodes |-> _extract_candidate_info(nodes[i]).cm ]

\* the positions that hold the first occurrence of a file name, or no file name
FirstOrNameless(cms) ==
    { i \in DOMAIN cms :
        cms[i].file_name = << >>
        \/ \A j \in 1 .. (i - 1) : cms[j].file_name # cms[i].file_name }

\* kept is cms restricted to the positions keep, in the order of cms
IsRestriction(kept, cms, keep) ==
    /\ Len(kept) = Cardinality(keep)
    /\ \A i \in keep : kept[Cardinality({ j \in keep : j <= i })] = cms[i]

Occurrences(s, e) == Cardinality({ k \in DOMAIN s : s[k] = e })

SameElements(s, t) ==
    /\ Len(s) = Len(t)
    /\ \A k \in DOMAIN s : Occurrences(s, s[k]) = Occurrences(t, s[k])

\* C1: whatever records the index returns to a retrieval operation, the
\* candidates after its loop are the normalized records at the positions
\* that hold the first occurrence of a non-empty file_name or an empty
\* file_name, in index order; the list the operation returns has the same
\* elements.
C1_KeepsFirstOccurrences ==
    \A i \in Invs :
        Answered(inv[i]) =>
            /\ IsRestriction(inv[i].candidates, Normalized(inv[i].nodes),
                             FirstOrNameless(Normalized(inv[i].nodes)))
            /\ inv[i].retrieved = "list" =>
                   SameElements(inv[i].result.candidates, inv[i].candidates)

\* retrieve_candidates has dropped the second record of al_bo.p and kept
\* the two identical records without a file name
C1_Witness ==
    /\ inv[1].pc = "done"
    /\ inv[1].op = "retrieve_candidates"
    /\ inv[1].nodes = << RecA1, RecE, RecA2, RecE >>
    /\ Len(inv[1].result.candidates) = 3
    /\ inv[1].candidates[2] = inv[1].candidates[3]

NonIncreasing(cs) ==
    \A k \in 1 .. (Len(cs) - 1) : ~ScoreLess(cs[k].score, cs[k + 1].score)

\* the place of cs[i] in a stable sort by descending score: behind the
\* candidates with a higher score and the earlier ones with an equal score
StablePlace(cs, i) ==
    1 + Cardinality({ j \in DOMAIN cs :
                        \/ ScoreLess(cs[i].score, cs[j].score)
                        \/ j < i /\ ~ScoreLess(cs[j].score, cs[i].score) })

\* C2: the list a retrieval operation returns is in non-increasing score
\* order and holds every candidate kept by the loop at its place in a stable
\* sort: candidates of equal score keep their order from the index results.
C2_StableDescending ==
    \A i \in Invs :
        (Answered(inv[i]) /\ inv[i].retrieved = "list") =>
            /\ NonIncreasing(inv[i].result.candidates)
            /\ Len(inv[i].result.candidates) = Len(inv[i].candidates)
            /\ \A k \in DOMAIN inv[i].candidates :
                   inv[i].result.candidates[StablePlace(inv[i].candidates, k)]
                       = inv[i].candidates[k]

\* the record of score 7 returned last comes first, the two records of
\* score 3 follow in index order
C2_Witness ==
    /\ inv[1].pc = "done"
    /\ inv[1].retrieved = "list"
    /\ inv[1].nodes = << RecE, RecA1, RecB >>
    /\ inv[1].result.candidates[1].file_name = FileB
    /\ inv[1].result.candidates[2].file_name = << >>
    /\ inv[1].result.candidates[3].file_name = FileA

\* C3: the success envelope of find_matching_candidates, for n records of
\* which d repeat a file name seen earlier, has total_candidates = n - d =
\* the length of candidates, lists them in non-increasing score order and
\* echoes the caller's top_k and enable_reranking; a list returned by the
\* retrieval gives a success envelope.
C3_FindEnvelope ==
    \A i \in Invs :
        (inv[i].tool = "find_matching_candidates" /\ Answered(inv[i])) =>
            /\ inv[i].retrieved = "list" => inv[i].result.kind = "success"
            /\ inv[i].result.kind = "success" =>
                   /\ inv[i].result.total_candidates
                          = Len(inv[i].nodes)
                            - Cardinality(DOMAIN inv[i].nodes
                                          \ FirstOrNameless(Normalized(inv[i].nodes)))
                   /\ inv[i].result.total_candidates = Len(inv[i].result.candidates)
                   /\ NonIncreasing(inv[i].result.candidates)
                   /\ inv[i].result.search_parameters.top_k = inv[i].args.top_k
                   /\ inv[i].result.search_parameters.enable_reranking
                          = inv[i].args.enable_reranking

\* five records, two of al_bo.p, and top_k = 5: four candidates
C3_Witness ==
    /\ inv[1].pc = "done"
    /\ inv[1].tool = "find_matching_candidates"
    /\ inv[1].args.top_k = NumV(5)
    /\ inv[1].nodes = << RecA1, RecB, RecA2, RecE, RecE >>
    /\ inv[1].result.kind = "success"
    /\ inv[1].result.total_candidates = 4
    /\ inv[1].result.search_parameters.top_k = NumV(5)
    /\ inv[1].result.candidates[1].file_name = FileB

(***************************************************************************)
(* Properties of the tool facades                                          *)
(***************************************************************************)
RetrievalTools == { "find_matching_candidates", "search_candidates_by_skills" }

ToolNames ==
    RetrievalTools \cup { "extract_job_requirements", "score_candidate_qualifications" }

\* no retrieval operation was entered, nothing was sent to the index or to
\* the text-generation service, and no connection handle was built
NothingContacted(r) ==
    r.op = "none" /\ r.connects = 0 /\ r.queries = 0 /\ r.llm_calls = 0

Rejected(r) == r.pc = "done" /\ r.result.kind = "error" /\ NothingContacted(r)

WhitespaceOnly(text) == \A k \in DOMAIN text : text[k] \in { " ", "\t", "\n" }

\* C4: find_matching_candidates and search_candidates_by_skills enter a
\* retrieval only with an integer top_k from 1 to 50; a call with any other
\* top_k returns an error envelope with nothing contacted and no connection
\* handle built; with the service constructed and a text that is not blank,
\* top_k = 1 and top_k = 50 lead to a retrieval.
C4_TopKRange ==
    \A i \in Invs :
        (inv[i].tool \in RetrievalTools /\ inv[i].pc # "idle") =>
            LET top_k == inv[i].args.top_k
                text == IF inv[i].tool = "find_matching_candidates"
                        THEN inv[i].args.required_qualifications
                        ELSE inv[i].args.skills
                inside == top_k.k = "num" /\ 1 <= top_k.n /\ top_k.n <= 50
            IN  /\ ~NothingContacted(inv[i]) => inside
                /\ ~inside => Rejected(inv[i])
                /\ ( /\ inside
                     /\ top_k.n \in { 1, 50 }
                     /\ ~WhitespaceOnly(text)
                     /\ llamacloud_service = "ready" ) => inv[i].op # "none"

\* search_candidates_by_skills called with top_k = 51
C4_Witness ==
    /\ inv[1].tool = "search_candidates_by_skills"
    /\ inv[1].args.top_k = NumV(51)
    /\ inv[1].args.skills = << "a" >>
    /\ llamacloud_service = "ready"
    /\ inv[1].result.error = "top_k must be an integer between 1 and 50"
    /\ index = "None"

\* the text arguments a tool requires
RequiredTexts(r) ==
    CASE r.tool = "extract_job_requirements" -> { r.args.jd_text }
      [] r.tool = "find_matching_candidates" -> { r.args.required_qualifications }
      [] r.tool = "search_candidates_by_skills" -> { r.args.skills }
      [] r.tool = "score_candidate_qualifications" ->
             { r.args.candidate_resume, r.args.required_qualifications }
      [] OTHER -> { }

\* C5: a tool called with a required text argument that is empty or
\* whitespace only returns an error envelope, with nothing sent to the index
\* or to the text-generation service.
C5_BlankTextRejected ==
    \A i \in Invs :
        (inv[i].pc # "idle" /\ \E text \in RequiredTexts(inv[i]) : WhitespaceOnly(text))
            => Rejected(inv[i])

\* score_candidate_qualifications called with a resume and blank
\* required_qualifications
C5_Witness ==
    /\ inv[1].tool = "score_candidate_qualifications"
    /\ inv[1].args.candidate_resume = << "a" >>
    /\ inv[1].args.required_qualifications = << " ", " " >>
    /\ inv[1].result.error = "Required qualifications cannot be empty"
    /\ inv[1].llm_calls = 0

\* C6: a call of one of the four tools never ends with an exception: it
\* ends with a success or an error envelope, and with an error envelope when
\* the retrieval operation or the text-generation client has failed.
C6_NoFailureEscapes ==
    \A i \in Invs :
        inv[i].tool \in ToolNames =>
            /\ inv[i].result.kind # "raised"
            /\ inv[i].pc = "done" => inv[i].result.kind \in { "success", "error" }
            /\ inv[i].failed # "none" =>
                   inv[i].pc = "done" /\ inv[i].result.kind = "error"

\* the query of find_matching_candidates has failed
C6_Witness ==
    /\ inv[1].tool = "find_matching_candidates"
    /\ inv[1].failed = "query"
    /\ inv[1].result.kind = "error"
    /\ inv[1].result.error = "Failed to find matching candidates: "

\* C7: the configuration error of a service constructor does not crash the
\* process; the facade is left without its service, and a later call of a
\* tool that needs the service returns the service-not-available envelope
\* with nothing contacted.
C7_FacadesCatch ==
    /\ proc # "crashed"
    /\ (proc = "serving" /\ LlamaCloudServiceRaises(env)) => llamacloud_service = "None"
    /\ \A i \in Invs :
           ( /\ inv[i].tool \in RetrievalTools
             /\ inv[i].pc # "idle"
             /\ LlamaCloudServiceRaises(env) ) =>
               /\ Rejected(inv[i])
               /\ inv[i].result.error = ServiceUnavailable

\* C8: a retrieval operation whose connection, retriever configuration or
\* query fails raises to its caller, who gets no candidate list; an
\* invocation sends at most one query to the index, and none after a failed
\* connection or configuration.
C8_FailurePropagates ==
    \A i \in Invs :
        /\ inv[i].queries <= 1
        /\ inv[i].failed \in { "connect", "configure", "query" } =>
               /\ inv[i].pc = "done"
               /\ inv[i].retrieved = "raised"
               /\ inv[i].result.kind \in { "error", "raised" }
               /\ inv[i].result.candidates = << >>
               /\ inv[i].failed # "query" => inv[i].queries = 0

\* the query of search_by_skills has failed: the exception reaches the caller
C8_Witness ==
    /\ inv[1].op = "search_by_skills"
    /\ inv[1].failed = "query"
    /\ inv[1].queries = 1
    /\ inv[1].result.kind = "raised"

\* C9: whatever records the index returns, the retrieval operation returns
\* a candidate list.
C9_AlwaysAList ==
    \A i \in Invs :
        ( /\ inv[i].pc = "done"
          /\ inv[i].op # "none"
          /\ inv[i].failed \notin { "connect", "configure", "query" } ) =>
            inv[i].retrieved = "list"

\* the candidate the except block builds from the record
IsFallback(c, node) ==
    /\ c.candidate_name = UnknownCandidate
    /\ c.file_name = << >>
    /\ c.node_id = StrV(PyStr(IF node.id_.k = "absent" THEN StrV(Unknown) ELSE node.id_))
    /\ c.score = (IF node.score.k = "absent" THEN NumV(0) ELSE node.score)
    /\ c.content = StrV(PyStr(IF node.text.k # "absent" THEN node.text
                              ELSE IF node.content.k # "absent" THEN node.content
                              ELSE EmptyStr))
    /\ c.metadata = (IF node.metadata.k = "absent" THEN EmptyDict ELSE node.metadata)

\* C10: a result of one record gives one candidate whatever the record
\* holds; where the try block raises, the candidate has the record's
\* identifier, score, content and metadata, the name "Unknown Candidate" and
\* an empty file_name.
C10_NormalizerTotal ==
    \A i \in Invs :
        (Answered(inv[i]) /\ Len(inv[i].nodes) = 1) =>
            /\ Len(inv[i].candidates) = 1
            /\ ExtractMain(inv[i].nodes[1]).raised =>
                   IsFallback(inv[i].candidates[1], inv[i].nodes[1])

\* a record whose metadata is a str and whose score is None
C10_Witness ==
    /\ inv[1].pc = "done"
    /\ Len(inv[1].nodes) = 1
    /\ inv[1].nodes[1].metadata.k = "str"
    /\ inv[1].nodes[1].score = None
    /\ inv[1].nodes[1].id_ = NumV(7)
    /\ Len(inv[1].candidates) = 1
    /\ inv[1].candidates[1].candidate_name = UnknownCandidate
    /\ inv[1].candidates[1].node_id = StrV(<< "7" >>)
    /\ inv[1].retrieved = "list"

\* the positions of the records of file f in the answer of the index
RecordsOf(cms, f) == { k \in DOMAIN cms : cms[k].file_name = f }

\* the candidates with a file name in the list an operation has returned
Survivors(r) == { c \in Range(r.result.candidates) : c.file_name # << >> }

\* C27 as stated: the candidate that survives for a file has the highest
\* score among the records of that file.
C27_BestScoreSurvives ==
    \A i \in Invs :
        (Answered(inv[i]) /\ inv[i].retrieved = "list") =>
            \A c \in Survivors(inv[i]) :
                \A k \in RecordsOf(Normalized(inv[i].nodes), c.file_name) :
                    ~ScoreLess(c.score, Normalized(inv[i].nodes)[k].score)

\* C27, amended: the candidate that survives for a file is the first record
\* of that file in the order of the index, with the score of that record,
\* also when a later record of the file has a higher score; the list holds
\* one candidate of the file.
C27_FirstRecordSurvives ==
    \A i \in Invs :
        (Answered(inv[i]) /\ inv[i].retrieved = "list") =>
            \A c \in Survivors(inv[i]) :
                LET cms == Normalized(inv[i].nodes)
                    first == CHOOSE k \in RecordsOf(cms, c.file_name) :
                                 \A j \in RecordsOf(cms, c.file_name) : k <= j
                IN  /\ RecordsOf(cms, c.file_name) # { }
                    /\ c = cms[first]
                    /\ Cardinality(RecordsOf(inv[i].result.candidates, c.file_name)) = 1

\* the index returns the record of al_bo.p with score 3 before the one with
\* score 7: the file is listed with score 3
C27_Witness ==
    /\ inv[1].pc = "done"
    /\ inv[1].nodes = << RecA1, RecA2 >>
    /\ inv[1].retrieved = "list"
    /\ Len(inv[1].result.candidates) = 1
    /\ inv[1].result.candidates[1].file_name = FileA
    /\ inv[1].result.candidates[1].score = NumV(3)

(***************************************************************************)
(* Properties of the queries                                               *)
(***************************************************************************)
\* sub occurs in s from position p on
At(s, p, sub) == p >= 1 /\ p + Len(sub) - 1 <= Len(s) /\ SubSeq(s, p, p + Len(sub) - 1) = sub

Contains(s, sub) == \E p \in 1 .. (Len(s) + 1) : At(s, p, sub)

\* the items of a list, separated by ", ", occur in s from position p on
RECURSIVE ItemsAt(_, _, _)
ItemsAt(s, p, items) ==
    IF items = << >> THEN TRUE
    ELSE /\ At(s, p, Head(items))
         /\ Len(items) > 1 =>
                /\ At(s, p + Len(Head(items)), << ",", " " >>)
                /\ ItemsAt(s, p + Len(Head(items)) + 2, Tail(items))

RECURSIVE ItemsLen(_)
ItemsLen(items) ==
    IF items = << >> THEN 0
    ELSE Len(Head(items)) + (IF Len(items) > 1 THEN 2 ELSE 0) + ItemsLen(Tail(items))

\* the length of a clause: its label and its items; 0 for an empty list
ClauseLen(label, items) == IF items = << >> THEN 0 ELSE Len(label) + ItemsLen(items)

\* a clause is at position p of s, or absent for an empty list
ClauseAt(s, p, label, items) ==
    items # << >> => At(s, p, label) /\ ItemsAt(s, p + Len(label), items)

\* the query is built by _build_qualifications_query
BuiltFromQualifications(r) ==
    r.tool = "_build_qualifications_query" \/ r.op = "retrieve_candidates_by_qualifications"

\* C11: the query built from the lists required and preferred holds every
\* qualification as a substring; it is made of the clause "Required skills
\* and qualifications: " when required is not empty, the clause "Preferred
\* skills and experience: " when preferred is not empty and the clause
\* "Relevant experience with: " over both lists when one of them is not
\* empty, in this order, with one space between two clauses and nothing else.
C11_QualificationsQuery ==
    \A i \in Invs :
        BuiltFromQualifications(inv[i]) =>
            LET required == inv[i].required_quals
                preferred == inv[i].preferred_quals
                both == required \o preferred
                query == inv[i].query
                l1 == ClauseLen(RequiredClause, required)
                l2 == ClauseLen(PreferredClause, preferred)
                l3 == ClauseLen(RelevantClause, both)
                p2 == IF l1 > 0 THEN l1 + 2 ELSE 1
                p3 == IF l2 > 0 THEN p2 + l2 + 1 ELSE p2
                clauses == Cardinality({ l \in { << 1, l1 >>, << 2, l2 >>, << 3, l3 >> } :
                                           l[2] > 0 })
            IN  /\ \A k \in DOMAIN both : Contains(query, both[k])
                /\ ClauseAt(query, 1, RequiredClause, required)
                /\ ClauseAt(query, p2, PreferredClause, preferred)
                /\ ClauseAt(query, p3, RelevantClause, both)
                /\ (l1 > 0 /\ l3 > 0) => query[l1 + 1] = " "
                /\ (l2 > 0 /\ l3 > 0) => query[p3 - 1] = " "
                /\ Len(query) = l1 + l2 + l3 + (IF clauses > 0 THEN clauses - 1 ELSE 0)
                /\ Contains(query, RequiredClause) <=> required # << >>
                /\ Contains(query, PreferredClause) <=> preferred # << >>
                /\ Contains(query, RelevantClause) <=> both # << >>

\* required = ["c, d", "a"] and preferred = ["b "]: three clauses, the
\* second one from position 45 on
C11_Witness ==
    /\ inv[1].result.kind = "str"
    /\ inv[1].required_quals = << << "c", ",", " ", "d" >>, << "a" >> >>
    /\ inv[1].preferred_quals = << << "b", " " >> >>
    /\ At(inv[1].query, 45, PreferredClause)
    /\ Len(inv[1].query) = 117

\* the strings of a list with one space between two of them
RECURSIVE Spaced(_)
Spaced(items) ==
    IF items = << >> THEN << >>
    ELSE IF Len(items) = 1 THEN items[1]
    ELSE Spaced(SubSeq(items, 1, Len(items) - 1)) \o << " " >> \o items[Len(items)]

\* query followed by the clause label + text, after a space if query is
\* not empty; query itself if the field is empty
WithClause(query, field, label, text) ==
    IF field = << >> THEN query
    ELSE IF query = << >> THEN label \o text
    ELSE query \o << " " >> \o label \o text

\* C23: the query built from a job description is made of the clauses "Job
\* Title: ", "Required Qualifications: ", "Preferred Qualifications: " and
\* "Experience Level: ", in this order, with one space between two clauses,
\* without the clauses whose field is empty; company, location, description
\* and employment_type do not occur in it; four empty fields give "".
C23_SearchQuery ==
    \A i \in Invs :
        (inv[i].pc = "done" /\ inv[i].tool = "_build_search_query") =>
            LET jd == inv[i].job_description
                q1 == WithClause(<< >>, jd.title, JobTitle, jd.title)
                q2 == WithClause(q1, jd.required_qualifications, RequiredQualifications,
                                 Spaced(jd.required_qualifications))
                q3 == WithClause(q2, jd.preferred_qualifications, PreferredQualifications,
                                 Spaced(jd.preferred_qualifications))
                q4 == WithClause(q3, jd.experience_level, ExperienceLevel, jd.experience_level)
            IN  /\ inv[i].query = q4
                /\ \A other \in { jd.company, jd.location, jd.description, jd.employment_type } :
                       other # << >> => ~Contains(inv[i].query, other)
                /\ ( /\ jd.title = << >>
                     /\ jd.required_qualifications = << >>
                     /\ jd.preferred_qualifications = << >>
                     /\ jd.experience_level = << >> ) => inv[i].query = << >>

\* title "QA", required ["c, d"], no preferred qualifications, level
\* "senior", and a company: three clauses
C23_Witness ==
    /\ inv[1].tool = "_build_search_query"
    /\ inv[1].result.kind = "str"
    /\ inv[1].job_description.title = << "Q", "A" >>
    /\ inv[1].job_description.required_qualifications = << << "c", ",", " ", "d" >> >>
    /\ inv[1].job_description.preferred_qualifications = << >>
    /\ inv[1].job_description.experience_level = Senior
    /\ inv[1].job_description.company = << "1" >>
    /\ At(inv[1].query, 1, JobTitle)
    /\ At(inv[1].query, 15, RequiredQualifications)
    /\ At(inv[1].query, 45, ExperienceLevel)
    /\ Len(inv[1].query) = 68

(***************************************************************************)
(* Properties of the scoring                                               *)
(***************************************************************************)
\* the sum of the scores returned in items, score by score
RECURSIVE SumUpTo(_, _)
SumUpTo(items, v) ==
    IF v = 0 THEN 0
    ELSE v * Cardinality({ k \in DOMAIN items : items[k] = NumV(v) }) + SumUpTo(items, v - 1)

SumOfScores(items) == SumUpTo(items, MaxScoreValue)

\* t tenths of a percent is 100 * total / max rounded to one decimal
IsRounded(t, total, max) ==
    /\ 2 * (t * max - 1000 * total) <= max
    /\ 2 * (1000 * total - t * max) <= max

\* C12: a scoring result has maxPossibleScore = 2 * (number of required +
\* number of preferred qualifications passed in), totalScore = requiredTotal
\* + preferredTotal = the sum of the scores returned, and matchPercentage =
\* 100 * totalScore / maxPossibleScore rounded to one decimal, 0 when
\* maxPossibleScore is 0; 2 required and 1 preferred qualification all
\* scored 2 give 6, 6 and 100.0.
C12_ScoreArithmetic ==
    \A i \in Invs :
        ( /\ inv[i].tool = "score_candidate_qualifications"
          /\ inv[i].pc = "done"
          /\ inv[i].result.kind = "success" ) =>
            LET sc == inv[i].result.scoring
                count == Len(inv[i].required_quals) + Len(inv[i].preferred_quals)
            IN  /\ sc.maxPossibleScore = 2 * count
                /\ sc.totalScore = sc.requiredTotal + sc.preferredTotal
                /\ sc.totalScore = SumOfScores(sc.requiredScores \o sc.preferredScores)
                /\ sc.maxPossibleScore > 0 =>
                       IsRounded(sc.matchPercentage, sc.totalScore, sc.maxPossibleScore)
                /\ sc.maxPossibleScore = 0 => sc.matchPercentage = 0
                /\ ( /\ Len(inv[i].required_quals) = 2
                     /\ Len(inv[i].preferred_quals) = 1
                     /\ sc.requiredScores = << NumV(2), NumV(2) >>
                     /\ sc.preferredScores = << NumV(2) >> ) =>
                       /\ sc.totalScore = 6
                       /\ sc.maxPossibleScore = 6
                       /\ sc.matchPercentage = 1000

\* "Python, SQL" required and "a" preferred, all three scored 2
C12_Witness ==
    /\ inv[1].tool = "score_candidate_qualifications"
    /\ inv[1].pc = "done"
    /\ inv[1].args.required_qualifications = PythonSQL
    /\ inv[1].required_quals = << << "P", "y", "t", "h", "o", "n" >>, << "S", "Q", "L" >> >>
    /\ inv[1].preferred_quals = << << "a" >> >>
    /\ inv[1].result.scoring.requiredScores = << NumV(2), NumV(2) >>
    /\ inv[1].result.scoring.preferredScores = << NumV(2) >>
    /\ inv[1].result.scoring.totalScore = 6
    /\ inv[1].result.scoring.matchPercentage = 1000

\* the scores of the scale the prompt asks for
ScaleScores == { NumV(0), NumV(1), NumV(2) }

\* C28: in every scoring result returned by score_candidate_qualifications,
\* whatever the response of the model holds, each score of requiredScores
\* and preferredScores is 0, 1 or 2, totalScore <= maxPossibleScore and
\* 0 <= matchPercentage <= 100.
C28_ScoresInRange ==
    \A i \in Invs :
        ( /\ inv[i].tool = "score_candidate_qualifications"
          /\ inv[i].pc = "done"
          /\ inv[i].result.kind = "success" ) =>
            LET sc == inv[i].result.scoring
            IN  /\ \A item \in Range(sc.requiredScores \o sc.preferredScores) :
                       item \in ScaleScores
                /\ sc.totalScore <= sc.maxPossibleScore
                /\ 0 <= sc.matchPercentage /\ sc.matchPercentage <= 1000

(***************************************************************************)
(* Properties of the name inference                                        *)
(***************************************************************************)
\* the base name without its extension: what precedes its last "."
WithoutExtension(base) ==
    LET dots == { k \in 1 .. Len(base) : base[k] = "." }
    IN  IF dots = { } THEN base
        ELSE SubSeq(base, 1, (CHOOSE k \in dots : \A j \in dots : j <= k) - 1)

\* directory path and extension stripped, "_" and "-" replaced by spaces,
\* title-cased
CleanedFileName(file_name) ==
    Title(Replace(Replace(WithoutExtension(Basename(file_name)), "_", " "), "-", " "))

\* the name the content gives to a candidate
NameInContent(c) ==
    IF c.content.k = "str" /\ NameFromContent(c.content.s).found
    THEN NameFromContent(c.content.s).name
    ELSE UnknownCandidate

\* the index has answered with one record, whose candidate has a file name
OneFileNamed(r) ==
    Answered(r) /\ Len(r.nodes) = 1 /\ Len(r.candidates) = 1
    /\ r.candidates[1].file_name # << >>

\* C13: the candidate of a record with a file name is named after the file:
\* its base name without directory and extension, "_" and "-" replaced by
\* spaces, title-cased; unless that is empty or starts with "resume" in any
\* case, and then the name is the one the content gives.
C13_NameFromFileName ==
    \A i \in Invs :
        OneFileNamed(inv[i]) =>
            LET c == inv[i].candidates[1]
                cleaned == CleanedFileName(c.file_name)
            IN  c.candidate_name =
                    IF cleaned = << >> \/ StartsWith(Lower(cleaned), Resume)
                    THEN NameInContent(c)
                    ELSE cleaned

JaneDoeResume ==
    << "J", "a", "n", "e", " ", "D", "o", "e", " ", "R", "e", "s", "u", "m", "e" >>

\* C14 as stated: the record of the file "jane_doe_resume.pdf" gets no name
\* from its file name; its name is the one the content gives.
C14_ResumeAnywhereExcluded ==
    \A i \in Invs :
        (OneFileNamed(inv[i]) /\ inv[i].candidates[1].file_name = JaneDoeResumePdf) =>
            inv[i].candidates[1].candidate_name = NameInContent(inv[i].candidates[1])

\* C14, amended: the record of the file "jane_doe_resume.pdf" is named
\* "Jane Doe Resume" after its file, whatever its content; the exclusion
\* fires for a base name that starts with "resume", as in
\* "resume_final.pdf", whose record is named by its content.
C14_ResumePrefixExcluded ==
    \A i \in Invs :
        OneFileNamed(inv[i]) =>
            /\ inv[i].candidates[1].file_name = JaneDoeResumePdf =>
                   inv[i].candidates[1].candidate_name = JaneDoeResume
            /\ inv[i].candidates[1].file_name = ResumeFinalPdf =>
                   inv[i].candidates[1].candidate_name = NameInContent(inv[i].candidates[1])

\* the record of "jane_doe_resume.pdf" whose content starts with "Cy Di"
C14_Witness ==
    /\ OneFileNamed(inv[1])
    /\ inv[1].nodes[1].metadata.file_name = StrV(JaneDoeResumePdf)
    /\ inv[1].nodes[1].text = StrV(ContentName)
    /\ inv[1].candidates[1].candidate_name = JaneDoeResume
    /\ inv[1].result.kind \in { "success", "list" }

\* the words of the file name, when the file-name step accepts them: not
\* empty and not starting with "resume"
AcceptedFromFile(file_name) ==
    /\ file_name # << >>
    /\ NamePart(file_name) # << >>
    /\ ~StartsWith(Lower(NamePart(file_name)), Resume)

\* the first NameScanLimit characters of a content
Head200(content) ==
    IF Len(content) <= NameScanLimit THEN content ELSE SubSeq(content, 1, NameScanLimit)

\* the index has answered with one record that the try block handles
OneNormalized(r) ==
    Answered(r) /\ Len(r.nodes) = 1 /\ Len(r.candidates) = 1
    /\ ~ExtractMain(r.nodes[1]).raised

\* C24: a name accepted from the file name is the candidate's name whatever
\* the content; otherwise the name is the one the first of the three
\* patterns that matches finds in the first 200 characters of the content:
\* at the start, after the label "Name", before a line break; without a
\* match, or without content, it is "Unknown Candidate".
C24_NamePrecedence ==
    \A i \in Invs :
        OneNormalized(inv[i]) =>
            LET c == inv[i].candidates[1]
                head == IF c.content.k = "str" THEN Head200(c.content.s) ELSE << >>
            IN  c.candidate_name =
                    IF AcceptedFromFile(c.file_name) THEN Title(NamePart(c.file_name))
                    ELSE IF PatternStart(head).found THEN PatternStart(head).name
                    ELSE IF PatternLabel(head).found THEN PatternLabel(head).name
                    ELSE IF PatternNewline(head).found THEN PatternNewline(head).name
                    ELSE UnknownCandidate

(***************************************************************************)
(* Properties of the connection handle and of concurrent invocations       *)
(***************************************************************************)
\* invocation i enters a retrieval operation in this step
Enters(i) == inv[i].pc = "idle" /\ inv'[i].op # "none"

\* invocation i has built the connection handle
HasBuilt(r) == r.connects = 1 /\ r.failed # "connect"

\* what a step does to the connection handle: the handle is unset until
\* the server serves; it changes only in a step in which an invocation
\* enters a retrieval and builds it; once set it stays; an invocation calls
\* LlamaCloudIndex(...) only as it enters a retrieval that finds the handle
\* unset, and a retrieval that finds it set uses it.
HandleStep ==
    /\ proc = "starting" => index = "None"
    /\ index = "handle" => index' = "handle"
    /\ index' # index =>
           \E i \in Invs : Enters(i) /\ HasBuilt(inv'[i]) /\ index' = "handle"
    /\ \A i \in Invs :
           /\ Enters(i) => inv'[i].connects = (IF index = "None" THEN 1 ELSE 0)
           /\ ~Enters(i) => inv'[i].connects \in { inv[i].connects, 0 }
           /\ (Enters(i) /\ index = "handle" /\ inv'[i].failed # "configure") =>
                  inv'[i].pc = "await_index"

\* C16: under any interleaving of invocations the connection handle is
\* built only when a retrieval needs it and at most once: once it is set no
\* step changes it, only a retrieval that finds it unset constructs one, and
\* every later retrieval uses the cached one.
C16_HandleBuiltOnce == [][HandleStep]_vars

\* two retrievals await the index at once: the first has built the handle,
\* the second has used it
C16_Witness ==
    /\ index = "handle"
    /\ inv[1].pc = "await_index" /\ inv[1].connects = 1
    /\ inv[2].pc = "await_index" /\ inv[2].connects = 0

\* what the other invocation j can do while the query of i is outstanding:
\* start, and with it validate and issue a query of its own; see its own
\* query end; return
CanProceed(j) ==
    /\ (inv[j].pc = "idle" /\ proc = "serving") =>
           ENABLED find_matching_candidates(j, << "a" >>, << >>, NumV(MinTopK),
                                            BoolV(FALSE), "ok", "ok")
    /\ inv[j].pc = "await_index" => ENABLED IndexQueryFails(j)
    /\ inv[j].pc = "done" => ENABLED Return(j)

\* the step in which the await of i ends gives i the answer to the query
\* it issued and leaves every other invocation as it is
Delivered(i) ==
    (inv[i].pc = "await_index" /\ inv'[i].pc # "await_index") =>
        /\ \A j \in Invs \ { i } : inv'[j] = inv[j]
        /\ inv'[i].pc = "done"
        /\ inv'[i].args = inv[i].args
        /\ inv'[i].query = inv[i].query
        /\ inv'[i].retriever_config = inv[i].retriever_config
        /\ inv'[i].failed \in { "query", "sort", "none" }
        /\ inv'[i].failed # "query" => inv'[i].candidates = ProcessNodes(inv'[i].nodes)

\* C17: while the query of an invocation is outstanding, another invocation
\* can start, validate, issue its own query and complete, and no step of
\* another invocation ends the wait; the answer to a query ends the wait of
\* the invocation that issued it and changes no other.
C17_QueryOffTheLoop ==
    /\ [](\A i \in Invs :
              inv[i].pc = "await_index" => \A j \in Invs \ { i } : CanProceed(j))
    /\ [][\A i \in Invs : Delivered(i)]_vars

\* the invocation that built the handle still awaits its query; another
\* one, which found the handle built, has got its answer and is done
C17_Witness ==
    /\ inv[1].pc = "await_index" /\ inv[1].connects = 1
    /\ inv[2].pc = "done" /\ inv[2].connects = 0 /\ inv[2].queries = 1
    /\ inv[2].result.kind = "success"
    /\ inv[2].nodes = << RecA1 >>

\* what invocation r returns when it runs alone and the index answers its
\* query with r.nodes
AsIfAlone(r) ==
    /\ r.candidates = ProcessNodes(r.nodes)
    /\ r.retrieved = (IF SortRaises(r.candidates) THEN "raised" ELSE "list")
    /\ r.retrieved = "list" =>
           /\ r.result.candidates = SortByScore(r.candidates)
           /\ r.tool \in RetrievalTools => r.result.total_candidates = Len(r.candidates)

\* a step changes one invocation at most, leaves a handle that is set as
\* it is, and leaves the services of a serving process as they are
OneAtATime ==
    /\ \A i, j \in Invs : (i # j /\ inv'[i] # inv[i]) => inv'[j] = inv[j]
    /\ index = "handle" => index' = "handle"
    /\ proc = "serving" => UNCHANGED << env, proc, openai_service, llamacloud_service >>

FailedBuild(i) ==
    (Enters(i) /\ inv'[i].failed = "connect") =>
        /\ index = "None" /\ index' = "None"
        /\ inv'[i].connects = 1
        /\ inv'[i].queries = 0
        /\ inv'[i].pc = "done"
        /\ inv'[i].retrieved = "raised"
        /\ inv'[i].result.kind \in { "error", "raised" }
        /\ inv'[i].result.candidates = << >>
        /\ \A j \in Invs \ { i } : inv'[j] = inv[j]

\* a retrieval that finds the handle unset constructs it, whatever has
\* failed before
BuildsAgain(i) == (Enters(i) /\ index = "None") => inv'[i].connects = 1

\* C25: a retrieval whose construction of the connection handle fails
\* raises to its caller and issues no query; the handle stays unset, is
\* never anything but unset or built, and the next retrieval constructs it
\* again.
C25_FailedBuildNotCached ==
    /\ [](index \in { "None", "handle" })
    /\ [](\A i \in Invs : inv[i].failed = "connect" => inv[i].queries = 0)
    /\ [][\A i \in Invs : FailedBuild(i) /\ BuildsAgain(i)]_vars

\* the construction has failed for the first invocation; the second one
\* has constructed the handle and awaits its query
C25_Witness ==
    /\ inv[1].pc = "done" /\ inv[1].failed = "connect" /\ inv[1].connects = 1
    /\ inv[1].result.kind = "error"
    /\ inv[2].pc = "await_index" /\ inv[2].connects = 1
    /\ index = "handle"

(***************************************************************************)
(* Properties of the retriever configuration                               *)
(***************************************************************************)
\* the retriever of invocation r has been configured
Configured(r) == r.queries = 1

\* C19: every retriever search_by_skills configures has enable_reranking =
\* False, whatever the skills text and top_k; the ones of
\* retrieve_candidates and retrieve_candidates_by_qualifications have the
\* enable_reranking their caller passed; all three have
\* dense_similarity_top_k = the caller's top_k.
C19_RerankingFlag ==
    \A i \in Invs :
        Configured(inv[i]) =>
            /\ inv[i].retriever_config.dense_similarity_top_k = inv[i].args.top_k
            /\ inv[i].op = "search_by_skills" =>
                   inv[i].retriever_config.enable_reranking = BoolV(FALSE)
            /\ inv[i].op = "retrieve_candidates_by_qualifications" =>
                   inv[i].retriever_config.enable_reranking = inv[i].args.enable_reranking
            /\ inv[i].op = "retrieve_candidates" =>
                   inv[i].retriever_config.enable_reranking =
                       IF inv[i].tool = "search_candidates_by_skills"
                       THEN BoolV(TRUE)
                       ELSE inv[i].args.enable_reranking

\* search_by_skills called with top_k = 51, which no facade has validated
C19_Witness ==
    /\ inv[1].op = "search_by_skills"
    /\ inv[1].pc = "await_index"
    /\ inv[1].args.top_k = NumV(51)
    /\ inv[1].retriever_config =
           [ dense_similarity_top_k |-> NumV(51), alpha |-> 1,
             enable_reranking |-> BoolV(FALSE) ]

\* C29: the search_candidates_by_skills tool retrieves through the
\* operation search_by_skills of the service, so every query of the index
\* issued for this tool has re-ranking disabled.
C29_SkillsToolWithoutReranking ==
    \A i \in Invs :
        (inv[i].tool = "search_candidates_by_skills" /\ Configured(inv[i])) =>
            /\ inv[i].op = "search_by_skills"
            /\ inv[i].retriever_config.enable_reranking = BoolV(FALSE)

(***************************************************************************)
(* Properties of the configuration                                         *)
(***************************************************************************)
\* the values of LLAMA_CLOUD_API_KEY that are no key: none, the placeholder
\* the constructor names and the one config.py supplies
NoLlamaKey == { "", "llx-your-api-key-here", "your-llamacloud-api-key-here" }

\* C20: LlamaCloudService is constructed only with a real API key and an
\* index name: not with a key that is missing or a placeholder, the default
\* of config.py included, and not without an index name.
C20_PlaceholdersRejected ==
    llamacloud_service = "ready" =>
        /\ env.LLAMA_CLOUD_API_KEY \notin NoLlamaKey
        /\ env.LLAMA_CLOUD_INDEX_NAME # ""
        /\ env.LLAMA_INDEX_AVAILABLE

(***************************************************************************)
(* Properties of the error envelopes                                       *)
(***************************************************************************)
\* C21: a json.JSONDecodeError that reaches extract_job_requirements gives
\* the envelope "JSON parsing error: ...", not "Configuration error: ...";
\* a content that does not parse gives score_candidate_qualifications the
\* message "Failed to parse scoring data from LLM response".
C21_ParseErrorDistinct ==
    \A i \in Invs :
        inv[i].pc = "done" =>
            /\ ( /\ inv[i].tool = "extract_job_requirements"
                 /\ inv[i].failed = "bad_body" ) =>
                   /\ inv[i].result.error = "JSON parsing error: "
                   /\ inv[i].result.error # "Configuration error: "
            /\ ( /\ inv[i].tool = "score_candidate_qualifications"
                 /\ inv[i].failed = "malformed" ) =>
                   /\ inv[i].result.kind = "error"
                   /\ inv[i].result.detail = "Failed to parse scoring data from LLM response"

(***************************************************************************)
(* Properties of the course of an invocation                               *)
(***************************************************************************)
\* invocation r awaits an external call
Pending(r) == r.pc \in { "await_index", "await_llm" }

\* r has returned one envelope: the success shape without an error, or the
\* error object and nothing else
EnvelopeReturned(r) ==
    /\ r.pc = "done"
    /\ r.result.kind \in { "success", "error" }
    /\ r.result.kind = "success" => r.result.error = ""
    /\ r.result.kind = "error" =>
           /\ r.result.error # ""
           /\ r.result = ErrorEnvelope(r.result.error, r.result.detail)

\* a step leaves a pending invocation as it is or resumes it with the outcome
\* of the call it awaits, and the invocation is then done; an invocation that
\* is done is only returned
RunsToCompletion(i) ==
    /\ inv[i].pc = "await_index" =>
           \/ inv'[i] = inv[i]
           \/ /\ inv'[i].pc = "done"
              /\ inv'[i].tool = inv[i].tool
              /\ inv'[i].queries = 1
              /\ inv'[i].retrieved \in { "list", "raised" }
              /\ inv'[i].failed \in { "query", "sort", "none" }
    /\ inv[i].pc = "await_llm" =>
           \/ inv'[i] = inv[i]
           \/ inv'[i].pc = "done" /\ inv'[i].tool = inv[i].tool /\ inv'[i].llm_calls = 1
    /\ inv[i].pc = "done" => inv'[i] \in { inv[i], IdleInv }

\* C22: where every external call that is issued ends, an invocation of a
\* tool that awaits one is eventually done; an invocation that is done has
\* returned one envelope, of the success shape or an error object; a query
\* that has been issued is awaited until the index answers or fails.
C22_EventuallyOneEnvelope ==
    /\ \A i \in Invs :
           (Pending(inv[i]) /\ inv[i].tool \in ToolNames) ~> EnvelopeReturned(inv[i])
    /\ [](\A i \in Invs :
              (inv[i].pc = "done" /\ inv[i].tool \in ToolNames) => EnvelopeReturned(inv[i]))
    /\ [][\A i \in Invs : RunsToCompletion(i)]_vars

\* the query of search_candidates_by_skills has failed while
\* find_matching_candidates still awaits its own
C22_Witness ==
    /\ inv[1].tool = "find_matching_candidates" /\ inv[1].pc = "await_index"
    /\ inv[2].tool = "search_candidates_by_skills" /\ inv[2].failed = "query"
    /\ EnvelopeReturned(inv[2])
    /\ inv[2].result.error = "Failed to search candidates by skills: "

(***************************************************************************)
(* Properties of the arguments that reach the index                        *)
(***************************************************************************)
\* C26: find_matching_candidates issues a query only with a parsed list of
\* required qualifications that is not empty, and the query it sends is not
\* empty; a text of commas and whitespace alone is rejected with an error
\* envelope and nothing is contacted.
C26_NoEmptyQuery ==
    \A i \in Invs :
        (inv[i].tool = "find_matching_candidates" /\ inv[i].pc # "idle") =>
            /\ inv[i].queries > 0 =>
                   /\ inv[i].required_quals # << >>
                   /\ inv[i].query # << >>
            /\ ParseQuals(inv[i].args.required_qualifications) = << >> => Rejected(inv[i])


(***************************************************************************)
(* Properties of the scoring tool and the index service                    *)
(***************************************************************************)
Scoring(r) == r.tool = "score_candidate_qualifications"

\* the call of the scoring tool that takes slot i from idle
ScoringCalled(i) == inv[i].pc = "idle" /\ Scoring(inv'[i])

\* the call passes the validation of the tool and requests the scoring
Requested(r) == r.pc = "await_llm" /\ r.llm_calls = 1

\* C30: score_candidate_qualifications does not depend on the index
\* service.  Whether or not the service was constructed, a call with a
\* blank resume or blank required qualifications is refused with the
\* message of the validation and every other call requests the scoring from
\* the text-generation service; the invocation never has the envelope of
\* the unavailable service, connects to no index and sends no query, and
\* none of its steps changes the cached handle.
C30_ScoringWithoutIndex ==
    /\ [](\A i \in Invs :
             Scoring(inv[i]) =>
                 /\ inv[i].connects = 0
                 /\ inv[i].queries = 0
                 /\ inv[i].op = "none"
                 /\ inv[i].result.error # ServiceUnavailable)
    /\ [][\A i \in Invs :
             /\ (Scoring(inv[i]) \/ Scoring(inv'[i])) /\ inv'[i] # inv[i] =>
                    index' = index /\ llamacloud_service' = llamacloud_service
             /\ ScoringCalled(i) =>
                    /\ Requested(inv'[i]) <=>
                           ( /\ ~Blank(inv'[i].args.candidate_resume)
                             /\ ~Blank(inv'[i].args.required_qualifications) )
                    /\ ~Requested(inv'[i]) => inv'[i].pc = "done"]_vars

\* the index service was not constructed and the tool has returned a
\* scoring result
C30_Witness ==
    /\ llamacloud_service = "None"
    /\ Scoring(inv[1])
    /\ inv[1].pc = "done"
    /\ inv[1].llm_calls = 1
    /\ inv[1].result.kind = "success"
    /\ inv[1].result.scoring.totalScore = 3
    /\ index = "None"

=============================================================================
